---------------------------- MODULE Spec2Model ----------------------------
(***************************************************************************)
(* Model of the GeoTIFF georeferencing decoders of geoImages.               *)
(*                                                                         *)
(* The repository holds two decoders of the same byte layout:              *)
(*   - FileFormats::GeoTIFF  (src/GeoTIFF.cpp): QDataStream based, classic  *)
(*     TIFF only, keeps every tag in m_TIFFFields, fills m_bBox and m_name; *)
(*   - TiffFile / GeoMaps::GeoImage::readCoordinates (src/geoImage.cpp):    *)
(*     retains the entries of tags 256, 257, 33550, 33922, fills geo, and   *)
(*     getRect() derives the rectangle.                                     *)
(* Both are modelled at the level of bytes: the state holds the bytes of    *)
(* the file, the device position and each decoder's fields, and there is    *)
(* one action per read step of the code.                                    *)
(*                                                                         *)
(* Numbers.  A "double" is modelled by the integer it holds: its 8 bytes    *)
(* are, in little-endian order, the two's complement form of an integer in  *)
(* -32768..32767 (sign-extended to 64 bits); every other bit pattern        *)
(* decodes to NaN.  Byte order handling (the part the code implements) is   *)
(* exact; IEEE-754 rounding is not modelled.  The host is little-endian.    *)
(***************************************************************************)
EXTENDS Integers, Sequences, FiniteSets, TLC

VARIABLES
    impl,          \* which decoder runs: "GeoTIFF" or "TiffFile"
    content,       \* the logical content the file was encoded from (ghost)
    file,          \* the bytes of the file
    openOk,        \* whether QFile::open succeeds
    pc,            \* position of the decoder in its code
    pos,           \* QIODevice position
    byteOrder,     \* QDataStream byte order / header.byteOrder
    tagCount,      \* readTIFFData: tagCount; readIfd: deCount
    idx,           \* loop counter i
    m_TIFFFields,  \* GeoTIFF: QMap<quint16, QVariantList>
    m_bBox,        \* GeoTIFF: QGeoRectangle m_bBox
    m_name,        \* GeoTIFF: QString m_name
    m_error,       \* DataFileAbstract error / TiffFilePrivate errorString
    m_warnings,    \* DataFileAbstract warnings
    header,        \* TiffFilePrivate::header (version, ifd0Offset)
    ifdEntries,    \* TiffIfdPrivate::ifdEntries of the first IFD
    geo,           \* TiffFilePrivate::geo
    rect,          \* what readCoordinates returns
    thrown,        \* TiffFile: the QString thrown, "" if none
    device,        \* the kind of QIODevice read from: "QFile" or "QBuffer"
    phase,         \* 0: one file is decoded; 1, 2: the first, second of two
    twin,          \* the content of the second file
    first,         \* the outcome of decoding the first file
    trace          \* ghost: the device operations performed so far

vars == << impl, content, file, openOk, pc, pos, byteOrder, tagCount, idx,
           m_TIFFFields, m_bBox, m_name, m_error, m_warnings,
           header, ifdEntries, geo, rect, thrown, device, phase, twin,
           first, trace >>

---------------------------------------------------------------------------
(* Bounds of the inputs *)

\* width and height range over 0..MaxDim
MaxDim == 2
\* pixel scales range over -MaxScale..MaxScale
MaxScale == 1
\* tie point longitude and latitude range over -MaxCoord..MaxCoord
MaxCoord == 1
\* description strings have at most MaxDescLen characters
MaxDescLen == 2

---------------------------------------------------------------------------
(* Program constants *)

TagImageWidth == 256
TagImageHeight == 257
TagImageDescription == 270
TagModelPixelScale == 33550
TagModelTiepoint == 33922

DT_Byte == 1
DT_Ascii == 2
DT_Short == 3
DT_Long == 4
DT_Rational == 5
DT_SByte == 6
DT_Undefined == 7
DT_SShort == 8
DT_SLong == 9
DT_SRational == 10
DT_Float == 11
DT_Double == 12
DT_Ifd == 13
DT_Long8 == 14
DT_SLong8 == 15
DT_Ifd8 == 16

VersionClassic == 42
VersionBigTiff == 43
MaxTagCount == 100

\* double tmpFloat = NAN: the value of every bit pattern outside the
\* modelled range of doubles
NaN == 1000000

LittleEndian == "LE"
BigEndian == "BE"
MagicII == <<73, 73>>
MagicMM == <<77, 77>>

RequiredTags == {TagImageWidth, TagImageHeight, TagModelPixelScale, TagModelTiepoint}

---------------------------------------------------------------------------
(* Bytes and integers *)

Min(a, b) == IF a < b THEN a ELSE b

RECURSIVE Zeros(_)
Zeros(n) == IF n <= 0 THEN <<>> ELSE <<0>> \o Zeros(n - 1)

Reverse(s) == [i \in 1..Len(s) |-> s[Len(s) + 1 - i]]

\* qFromLittleEndian / qFromBigEndian: the bytes in order of significance,
\* least significant first
ToHostOrder(bytes, order) == IF order = LittleEndian THEN bytes ELSE Reverse(bytes)

\* quint16 from two bytes in host order
U16Value(b) == b[1] + 256 * b[2]

\* A 32-bit value is kept as its four bytes in host order; its number is
\* used only where it is below 2^31
U32IsHuge(b) == b[4] >= 128
U32Value(b) == b[1] + 256 * b[2] + 65536 * b[3] + 16777216 * b[4]

\* the double held by 8 bytes in host order
DoubleValue(b) ==
    LET ext == IF b[2] >= 128 THEN 255 ELSE 0
        u == b[1] + 256 * b[2]
    IN IF \A i \in 3..8 : b[i] = ext
       THEN (IF u >= 32768 THEN u - 65536 ELSE u)
       ELSE NaN

\* double arithmetic
DAdd(a, b) == IF a = NaN \/ b = NaN THEN NaN ELSE a + b
DSub(a, b) == IF a = NaN \/ b = NaN THEN NaN ELSE a - b
DMul(a, b) == IF a = NaN \/ b = NaN THEN NaN ELSE a * b
DPositive(a) == a # NaN /\ a > 0

---------------------------------------------------------------------------
(* The byte layout of a classic TIFF file, as the decoders read it.  A      *)
(* content is the logical content of a file; EncodeFile lays it out.        *)

U16Bytes(v) == << v % 256, (v \div 256) % 256 >>

U32Bytes(v) == << v % 256, (v \div 256) % 256, (v \div 65536) % 256,
                  (v \div 16777216) % 256 >>

DoubleBytes(x) ==
    LET u == x % 65536
        ext == IF x < 0 THEN 255 ELSE 0
    IN << u % 256, u \div 256, ext, ext, ext, ext, ext, ext >>

\* bytes per value of a type code
TypeSize(type) ==
    CASE type \in {DT_Byte, DT_SByte, DT_Ascii, DT_Undefined} -> 1
      [] type \in {DT_Short, DT_SShort} -> 2
      [] type \in {DT_Long, DT_SLong, DT_Ifd, DT_Float} -> 4
      [] type \in {DT_Rational, DT_SRational, DT_Long8, DT_SLong8, DT_Ifd8,
                   DT_Double} -> 8
      [] OTHER -> 0

\* one value of an entry, in file byte order
ValueBytes(type, v, order) ==
    CASE TypeSize(type) = 2 -> ToHostOrder(U16Bytes(v), order)
      [] TypeSize(type) = 4 -> ToHostOrder(U32Bytes(v), order)
      [] TypeSize(type) = 8 -> ToHostOrder(DoubleBytes(v), order)
      [] OTHER -> << v >>

RECURSIVE RawBytes(_, _, _)
RawBytes(type, vals, order) ==
    IF vals = <<>> THEN <<>>
    ELSE ValueBytes(type, Head(vals), order) \o RawBytes(type, Tail(vals), order)

\* an entry: its tag, type code and values; count and offset follow from
\* the values unless the entry states them (count, a 32-bit value as four
\* bytes in order of significance; off >= 0, the offset written into the
\* value-or-offset field)
Entry(tag, type, vals) ==
    [tag |-> tag, type |-> type, vals |-> vals,
     count |-> U32Bytes(Len(vals)), off |-> -1]

EntryRaw(e, order) == RawBytes(e.type, e.vals, order)

\* values of more than 4 bytes are stored out of line
EntryOutOfLine(e, order) == Len(EntryRaw(e, order)) > 4

RECURSIVE DataBetween(_, _, _, _)
\* the number of out-of-line bytes of entries a..b
DataBetween(entries, a, b, order) ==
    IF a > b THEN 0
    ELSE IF a = b
    THEN (IF EntryOutOfLine(entries[a], order) /\ entries[a].off < 0
          THEN Len(EntryRaw(entries[a], order)) ELSE 0)
    ELSE DataBetween(entries, a, (a + b) \div 2, order)
         + DataBetween(entries, (a + b) \div 2 + 1, b, order)

\* the number of out-of-line bytes of entries 1..i
DataBefore(entries, i, order) == DataBetween(entries, 1, i, order)

\* where the out-of-line values start: after the header, the entry count,
\* the entries and the next-IFD offset
DataBase(c) == c.ifdOffset + 2 + 12 * Len(c.entries) + 4

EntryBytes(c, i) ==
    LET e == c.entries[i]
        raw == EntryRaw(e, c.order)
        field == IF e.off >= 0 THEN ToHostOrder(U32Bytes(e.off), c.order)
                 ELSE IF EntryOutOfLine(e, c.order)
                 THEN ToHostOrder(U32Bytes(DataBase(c)
                          + DataBefore(c.entries, i - 1, c.order)), c.order)
                 ELSE raw \o Zeros(4 - Len(raw))
    IN ToHostOrder(U16Bytes(e.tag), c.order)
       \o ToHostOrder(U16Bytes(e.type), c.order)
       \o ToHostOrder(e.count, c.order)
       \o field

RECURSIVE EntryBytesBetween(_, _, _)
\* the bytes of entries a..b
EntryBytesBetween(c, a, b) ==
    IF a > b THEN <<>>
    ELSE IF a = b THEN EntryBytes(c, a)
    ELSE EntryBytesBetween(c, a, (a + b) \div 2)
         \o EntryBytesBetween(c, (a + b) \div 2 + 1, b)

\* the bytes of entries i and following
AllEntryBytes(c, i) == EntryBytesBetween(c, i, Len(c.entries))

RECURSIVE DataBytesBetween(_, _, _)
\* the out-of-line values of entries a..b
DataBytesBetween(c, a, b) ==
    IF a > b THEN <<>>
    ELSE IF a = b
    THEN (IF EntryOutOfLine(c.entries[a], c.order) /\ c.entries[a].off < 0
          THEN EntryRaw(c.entries[a], c.order) ELSE <<>>)
    ELSE DataBytesBetween(c, a, (a + b) \div 2)
         \o DataBytesBetween(c, (a + b) \div 2 + 1, b)

\* the out-of-line values of entries i and following
AllDataBytes(c, i) == DataBytesBetween(c, i, Len(c.entries))

\* the whole file; cut >= 0 truncates it to cut bytes
EncodeFile(c) ==
    LET full == c.magic
                \o ToHostOrder(U16Bytes(c.version), c.order)
                \o ToHostOrder(U32Bytes(c.declIfd), c.order)
                \o Zeros(c.ifdOffset - 8)
                \o ToHostOrder(U16Bytes(Len(c.entries)), c.order)
                \o AllEntryBytes(c, 1)
                \o Zeros(4)
                \o AllDataBytes(c, 1)
    IN IF c.cut < 0 THEN full ELSE SubSeq(full, 1, Min(c.cut, Len(full)))

(* The byte layout of a BigTIFF file: a 16-byte header, a 64-bit number of  *)
(* entries, entries of 20 bytes whose value field holds up to 8 bytes.      *)

\* an unsigned 64-bit value from its low 32 bits
U64Bytes(b) == b \o Zeros(4)

BigEntryOutOfLine(e, order) == Len(EntryRaw(e, order)) > 8

RECURSIVE BigDataBetween(_, _, _, _)
BigDataBetween(entries, a, b, order) ==
    IF a > b THEN 0
    ELSE IF a = b
    THEN (IF BigEntryOutOfLine(entries[a], order) /\ entries[a].off < 0
          THEN Len(EntryRaw(entries[a], order)) ELSE 0)
    ELSE BigDataBetween(entries, a, (a + b) \div 2, order)
         + BigDataBetween(entries, (a + b) \div 2 + 1, b, order)

BigDataBefore(entries, i, order) == BigDataBetween(entries, 1, i, order)

BigDataBase(c) == c.ifdOffset + 8 + 20 * Len(c.entries) + 8

BigEntryBytes(c, i) ==
    LET e == c.entries[i]
        raw == EntryRaw(e, c.order)
        field == IF e.off >= 0 THEN ToHostOrder(U64Bytes(U32Bytes(e.off)), c.order)
                 ELSE IF BigEntryOutOfLine(e, c.order)
                 THEN ToHostOrder(U64Bytes(U32Bytes(BigDataBase(c)
                          + BigDataBefore(c.entries, i - 1, c.order))), c.order)
                 ELSE raw \o Zeros(8 - Len(raw))
    IN ToHostOrder(U16Bytes(e.tag), c.order)
       \o ToHostOrder(U16Bytes(e.type), c.order)
       \o ToHostOrder(U64Bytes(e.count), c.order)
       \o field

RECURSIVE BigEntryBytesBetween(_, _, _)
BigEntryBytesBetween(c, a, b) ==
    IF a > b THEN <<>>
    ELSE IF a = b THEN BigEntryBytes(c, a)
    ELSE BigEntryBytesBetween(c, a, (a + b) \div 2)
         \o BigEntryBytesBetween(c, (a + b) \div 2 + 1, b)

AllBigEntryBytes(c, i) == BigEntryBytesBetween(c, i, Len(c.entries))

RECURSIVE BigDataBytesBetween(_, _, _)
BigDataBytesBetween(c, a, b) ==
    IF a > b THEN <<>>
    ELSE IF a = b
    THEN (IF BigEntryOutOfLine(c.entries[a], c.order) /\ c.entries[a].off < 0
          THEN EntryRaw(c.entries[a], c.order) ELSE <<>>)
    ELSE BigDataBytesBetween(c, a, (a + b) \div 2)
         \o BigDataBytesBetween(c, (a + b) \div 2 + 1, b)

AllBigDataBytes(c, i) == BigDataBytesBetween(c, i, Len(c.entries))

\* the header holds the size of an offset (8), a reserved word and the
\* 64-bit offset of the first IFD
EncodeBigFile(c) ==
    LET full == c.magic
                \o ToHostOrder(U16Bytes(c.version), c.order)
                \o ToHostOrder(U16Bytes(8), c.order)
                \o ToHostOrder(U16Bytes(0), c.order)
                \o ToHostOrder(U64Bytes(U32Bytes(c.declIfd)), c.order)
                \o Zeros(c.ifdOffset - 16)
                \o ToHostOrder(U64Bytes(U32Bytes(Len(c.entries))), c.order)
                \o AllBigEntryBytes(c, 1)
                \o Zeros(8)
                \o AllBigDataBytes(c, 1)
    IN IF c.cut < 0 THEN full ELSE SubSeq(full, 1, Min(c.cut, Len(full)))

\* the bytes of a content in its layout
FileOf(c) == IF c.big THEN EncodeBigFile(c) ELSE EncodeFile(c)

---------------------------------------------------------------------------
(* The input files *)

Orders == {LittleEndian, BigEndian}

MagicOf(order) == IF order = LittleEndian THEN MagicII ELSE MagicMM

\* a well-formed classic TIFF file with the given entries
Content(order, entries) ==
    [magic |-> MagicOf(order), order |-> order, version |-> VersionClassic,
     declIfd |-> 8, ifdOffset |-> 8, entries |-> entries, cut |-> -1,
     big |-> FALSE]

DefaultGeo == [w |-> 2, h |-> 2, sx |-> 1, sy |-> 1, lon |-> 1, lat |-> 1]
DefaultDesc == <<65, 0>>

\* the entry of one tag, as GeoTIFF writers store it
TagEntry(tag, g, desc) ==
    CASE tag = TagImageWidth -> Entry(tag, DT_Short, << g.w >>)
      [] tag = TagImageHeight -> Entry(tag, DT_Short, << g.h >>)
      [] tag = TagModelPixelScale -> Entry(tag, DT_Double, << g.sx, g.sy, 0 >>)
      [] tag = TagModelTiepoint ->
             Entry(tag, DT_Double, << 0, 0, 0, g.lon, g.lat, 0 >>)
      [] OTHER -> Entry(tag, DT_Ascii, desc)

StdTagOrder == << TagImageWidth, TagImageHeight, TagModelPixelScale, TagModelTiepoint >>

EntriesOf(tags, g, desc) == [i \in 1..Len(tags) |-> TagEntry(tags[i], g, desc)]

Dims == 0..MaxDim
Scales == (0 - MaxScale)..MaxScale
Coords == (0 - MaxCoord)..MaxCoord

\* the georeferencing values: everything in x, everything in y, and every
\* pattern of zero and non-zero values
GeoValues ==
    { [DefaultGeo EXCEPT !.w = w, !.sx = sx, !.lon = lon] :
          w \in Dims, sx \in Scales, lon \in Coords }
    \cup { [DefaultGeo EXCEPT !.h = h, !.sy = sy, !.lat = lat] :
          h \in Dims, sy \in Scales, lat \in Coords }
    \cup { [w |-> w, h |-> h, sx |-> sx, sy |-> sy, lon |-> lon, lat |-> lat] :
          w \in {0, DefaultGeo.w}, h \in {0, DefaultGeo.h},
          sx \in {0, DefaultGeo.sx}, sy \in {0, DefaultGeo.sy},
          lon \in {0, DefaultGeo.lon}, lat \in {0, DefaultGeo.lat} }

ValueFiles ==
    { Content(o, EntriesOf(StdTagOrder, g, <<>>)) : o \in Orders, g \in GeoValues }

\* every subset of the five tags in every order
AllTags == RequiredTags \cup {TagImageDescription}
TagSeqs ==
    { s \in UNION { [1..k -> AllTags] : k \in 0..5 } :
          \A i, j \in DOMAIN s : i # j => s[i] # s[j] }

StructFiles ==
    { Content(o, EntriesOf(s, DefaultGeo, DefaultDesc)) : o \in Orders, s \in TagSeqs }

\* Ascii values of tag 270: every byte string over NUL, 'A', 'B' of at most
\* MaxDescLen + 1 bytes, and two that are stored out of line
DescBytes == {0, 65, 66}
AsciiValues ==
    UNION { [1..k -> DescBytes] : k \in 0..(MaxDescLen + 1) }
    \cup { <<65, 66, 65, 66, 0>>, <<65, 0, 66, 65, 66, 65>> }

DescFiles ==
    { Content(o, Append(EntriesOf(StdTagOrder, DefaultGeo, <<>>),
                        Entry(TagImageDescription, DT_Ascii, a))) :
          o \in Orders, a \in AsciiValues }

\* headers: magic, version, and the IFD offset (at 8, further on, or past
\* the end of the file)
HeaderFiles ==
    { [Content(o, EntriesOf(StdTagOrder, DefaultGeo, <<>>))
          EXCEPT !.magic = m, !.version = v] :
          o \in Orders, m \in {MagicII, MagicMM, <<73, 77>>, <<0, 0>>},
          v \in {VersionClassic, VersionBigTiff, 99, 0} }
    \cup { [Content(o, EntriesOf(StdTagOrder, DefaultGeo, <<>>))
          EXCEPT !.declIfd = d[1], !.ifdOffset = d[2]] :
          o \in Orders, d \in {<<10, 10>>, <<4000, 8>>} }

FullContent(o) ==
    Content(o, Append(EntriesOf(StdTagOrder, DefaultGeo, <<>>),
                      Entry(TagImageDescription, DT_Ascii, <<65, 66, 65, 66, 0>>)))

\* a well-formed file cut short at every length
TruncatedFiles ==
    UNION { { [FullContent(o) EXCEPT !.cut = n] :
                  n \in 0..(Len(EncodeFile(FullContent(o))) - 1) } : o \in Orders }

\* a tag whose entry has another type or another number of values than
\* GeoTIFF writers give it
OddEntries(tag) ==
    CASE tag \in {TagImageWidth, TagImageHeight} ->
             { Entry(tag, DT_Long, <<2>>), Entry(tag, DT_Short, <<>>),
               Entry(tag, DT_Double, <<2>>) }
      [] tag = TagModelPixelScale ->
             { Entry(tag, DT_Double, <<1>>), Entry(tag, DT_Double, <<>>),
               Entry(tag, DT_Short, <<1, 1>>), Entry(tag, DT_Long, <<1, 1>>) }
      [] tag = TagModelTiepoint ->
             { Entry(tag, DT_Double, <<0, 0, 0, 1>>), Entry(tag, DT_Double, <<>>),
               Entry(tag, DT_Short, <<0, 0, 0, 1, 1>>) }
      [] OTHER ->
             { Entry(tag, DT_Long, <<1>>), Entry(tag, DT_Short, <<65>>),
               Entry(tag, DT_Double, <<1>>) }

StdTagOrderDesc == Append(StdTagOrder, TagImageDescription)

\* the entries of s without those of tag
Without(s, tag) == SelectSeq(s, LAMBDA e : e.tag # tag)

\* one odd entry, and at most one other tag absent
OddFiles ==
    UNION { UNION { { Content(o, Without([i \in 1..5 |->
                                    IF StdTagOrderDesc[i] = t THEN e
                                    ELSE TagEntry(StdTagOrderDesc[i], DefaultGeo, DefaultDesc)],
                                 absent)) :
                      o \in Orders, absent \in ({0} \cup AllTags) \ {t} } :
                    e \in OddEntries(t) } : t \in AllTags }

\* zero and non-zero values, and one required tag absent
AbsentFiles ==
    { Content(o, Without(EntriesOf(StdTagOrder, g, <<>>), absent)) :
          o \in Orders, absent \in RequiredTags,
          g \in { [w |-> w, h |-> h, sx |-> sx, sy |-> sy, lon |-> lon, lat |-> lat] :
                     w \in {0, DefaultGeo.w}, h \in {0, DefaultGeo.h},
                     sx \in {0, DefaultGeo.sx}, sy \in {0, DefaultGeo.sy},
                     lon \in {0, DefaultGeo.lon}, lat \in {0, DefaultGeo.lat} } }

\* the BigTIFF file of a content
Big(c) == [c EXCEPT !.version = VersionBigTiff, !.big = TRUE,
                    !.declIfd = c.declIfd + 8, !.ifdOffset = c.ifdOffset + 8]

\* contents whose width or height has several values, of at most 4 bytes,
\* of 5 to 8 bytes and of more than 8 bytes
ManyValues == { <<1, 2>>, <<1, 1, 2>>, <<2, 2, 2, 2, 1>> }
ManyFiles ==
    { Content(o, [EntriesOf(StdTagOrder, DefaultGeo, <<>>)
                     EXCEPT ![i] = Entry(StdTagOrder[i], DT_Short, v)]) :
          o \in Orders, i \in 1..2, v \in ManyValues }

\* BigTIFF files: values, several values, a description, and one cut short
\* at every length
BigFiles ==
    { Big(c) : c \in ManyFiles }
    \cup { Big(Content(o, EntriesOf(StdTagOrder, g, <<>>))) :
             o \in Orders,
             g \in { [DefaultGeo EXCEPT !.w = w, !.sy = sy, !.lat = lat] :
                        w \in Dims, sy \in Scales, lat \in Coords } }
    \cup { [Big(FullContent(LittleEndian)) EXCEPT !.cut = n] :
             n \in 0..Len(EncodeBigFile(Big(FullContent(LittleEndian)))) }

\* the entries of a file with five tags, the width three Shorts
OffsetEntries ==
    [EntriesOf(StdTagOrderDesc, DefaultGeo, <<65, 66, 65, 66, 0>>)
        EXCEPT ![1] = Entry(TagImageWidth, DT_Short, <<1, 1, 2>>)]

\* how far from the end of the file an out-of-line value is said to start
EndDistances == {-8, -2, 0, 4000}

\* files in which the value-or-offset field of one entry whose values are
\* stored out of line points into the last bytes of the file, to its end or
\* past it
OffsetFiles ==
    { LET at(n) == [Content(o, OffsetEntries) EXCEPT !.entries[i].off = n]
      IN at(Len(EncodeFile(at(0))) + d) :
          o \in Orders, i \in {1, 3, 4, 5}, d \in EndDistances }

\* type codes outside 1..16, and counts
UnknownTypes == {0, 17, 99}
UnknownTypeFiles ==
    { Content(o, [EntriesOf(StdTagOrderDesc, DefaultGeo, DefaultDesc)
                     EXCEPT ![i] = Entry(StdTagOrderDesc[i], ty, v)]) :
          o \in Orders, i \in 1..5, ty \in UnknownTypes, v \in { <<>>, <<7>>, <<7, 7, 7, 7, 7>> } }

\* type codes of size 1, 2, 4 and 8 with counts, as four bytes in order
\* of significance, at which typeSize * count reaches 2^32: 2^29, 2^30,
\* 2^30 + 1, 2^31, 2^31 + 1 and 2^32 - 1
WrapCounts ==
    { << DT_Double, <<0, 0, 0, 32>> >>, << DT_Double, <<0, 0, 0, 128>> >>,
      << DT_Long, <<0, 0, 0, 64>> >>, << DT_Long, <<1, 0, 0, 64>> >>,
      << DT_Short, <<0, 0, 0, 128>> >>, << DT_Short, <<1, 0, 0, 128>> >>,
      << DT_Byte, <<255, 255, 255, 255>> >>, << DT_Short, <<255, 255, 255, 255>> >> }

\* files in which the width or the pixel scale has such a count, its
\* value-or-offset field holding an offset inside the file
WrapFiles ==
    { Content(o, [EntriesOf(StdTagOrder, DefaultGeo, <<>>)
                     EXCEPT ![i] = [tag |-> StdTagOrder[i], type |-> tc[1], vals |-> <<>>,
                                    count |-> tc[2], off |-> 62]]) :
          o \in Orders, i \in {1, 3}, tc \in WrapCounts }

\* s with e as its k-th entry
InsertAt(s, k, e) == SubSeq(s, 1, k - 1) \o << e >> \o SubSeq(s, k, Len(s))

\* other entries of a tag than TagEntry(tag, DefaultGeo, <<65>>), the first
\* a single value, the second several
OtherEntries(tag) ==
    CASE tag \in {TagImageWidth, TagImageHeight} ->
             << Entry(tag, DT_Short, <<1>>), Entry(tag, DT_Short, <<2, 1>>) >>
      [] tag = TagModelPixelScale ->
             << Entry(tag, DT_Double, <<1, -1, 0>>), Entry(tag, DT_Double, <<-1, 1, 0>>) >>
      [] tag = TagModelTiepoint ->
             << Entry(tag, DT_Double, <<0, 0, 0, -1, 1, 0>>),
                Entry(tag, DT_Double, <<0, 0, 0, 1, -1, 0>>) >>
      [] OTHER ->
             << Entry(tag, DT_Ascii, <<66>>), Entry(tag, DT_Ascii, <<65, 0, 66, 65>>) >>

\* where two more entries are put into a directory of five
DupPlaces == { <<1, 1>>, <<1, 7>>, <<3, 5>>, <<6, 7>>, <<6, 6>> }

\* files in which one tag occurs in two entries, at every place of the
\* directory, or in three
DupFiles ==
    { Content(o, InsertAt(EntriesOf(StdTagOrderDesc, DefaultGeo, <<65>>), k,
                          OtherEntries(t)[n])) :
          o \in Orders, t \in AllTags, k \in 1..6, n \in 1..2 }
    \cup { Content(o, InsertAt(InsertAt(EntriesOf(StdTagOrderDesc, DefaultGeo, <<65>>),
                                        d[1], OtherEntries(t)[n]),
                               d[2], OtherEntries(t)[3 - n])) :
             o \in Orders, t \in AllTags, d \in DupPlaces, n \in 1..2 }

\* n entries of a tag that is none of the five
Fillers(n) == [i \in 1..n |-> Entry(300, DT_Short, <<7>>)]

\* directories of 100, 101 and 102 entries: the four required tags in front,
\* or one of them as the 100th entry or the 101st
CapFiles ==
    { Content(o, EntriesOf(StdTagOrder, DefaultGeo, <<>>) \o Fillers(n)) :
          o \in Orders, n \in {96, 97} }
    \cup { Content(o, Without(EntriesOf(StdTagOrder, DefaultGeo, <<>>), t)
                        \o Fillers(n) \o << TagEntry(t, DefaultGeo, <<>>) >> \o Fillers(m)) :
             o \in Orders, t \in {TagImageWidth, TagModelTiepoint}, n \in {96, 97},
             m \in {0, 1} }

Contents == ValueFiles \cup StructFiles \cup DescFiles \cup HeaderFiles
            \cup TruncatedFiles \cup OddFiles \cup AbsentFiles
            \cup ManyFiles \cup BigFiles \cup OffsetFiles \cup UnknownTypeFiles
            \cup WrapFiles \cup DupFiles \cup CapFiles

Impls == {"GeoTIFF", "TiffFile"}

\* a default-constructed QGeoCoordinate and QGeoRectangle
InvalidCoordinate == [lon |-> NaN, lat |-> NaN]
InvalidRect == [topLeft |-> InvalidCoordinate, bottomRight |-> InvalidCoordinate]

NoFields == [t \in {} |-> <<>>]

\* GeoTIFF reads a file by name or any QIODevice, TiffFile a file by name
Devices == {"QFile", "QBuffer"}

\* the result of a run, for the comparison of two runs
NoOutcome == [pc |-> "none"]

\* the inputs of a run, which no step of the decoders changes
InputVars == << impl, content, file, openOk, device, phase, twin, first >>

\* the state of both decoders after construction
DecoderInit ==
    /\ pc = "start"
    /\ pos = 0
    /\ byteOrder = (IF impl = "GeoTIFF" THEN BigEndian ELSE LittleEndian)
    /\ tagCount = 0
    /\ idx = 0
    /\ m_TIFFFields = NoFields
    /\ m_bBox = InvalidRect
    /\ m_name = <<>>
    /\ m_error = ""
    /\ m_warnings = <<>>
    /\ header = [version |-> VersionClassic, ifd0Offset |-> 0]
    /\ ifdEntries = <<>>
    /\ geo = [width |-> 0, height |-> 0, longitute |-> 0, latitude |-> 0,
              pixelWidth |-> 0, pixelHeight |-> 0]
    /\ rect = InvalidRect
    /\ thrown = ""
    /\ trace = <<>>

Init ==
    /\ impl \in Impls
    /\ content \in Contents
    /\ file = FileOf(content)
    /\ openOk \in BOOLEAN
    /\ (~openOk => content = FullContent(LittleEndian))
    /\ device \in Devices
    /\ (device = "QBuffer" =>
            impl = "GeoTIFF" /\ openOk
            /\ content \in HeaderFiles \cup TruncatedFiles \cup OffsetFiles)
    /\ phase = 0
    /\ twin = content
    /\ first = NoOutcome
    /\ DecoderInit

---------------------------------------------------------------------------
(* The device and the values read from it *)

\* positions of 2^31 and more are past the end of every file of the model
PosLimit == 2147483647

U32Position(b) == IF U32IsHuge(b) THEN PosLimit ELSE U32Value(b)

\* QIODevice::read(n) at position p: at most n bytes, fewer at the end
ReadAt(p, n) == IF p >= Len(file) THEN <<>> ELSE SubSeq(file, p + 1, Min(p + n, Len(file)))

Available(p) == IF p >= Len(file) THEN 0 ELSE Len(file) - p

\* QIODevice::seek(p): a QFile accepts a position past the end of the file,
\* a QBuffer refuses it
SeekOutcomes(p) == IF p <= Len(file) \/ device = "QFile" THEN {TRUE} ELSE {FALSE}

Op(kind, what, at) == [op |-> kind, what |-> what, at |-> at]

\* QVariant holding a quint16, a double or a QString
VShort(n) == [k |-> "short", n |-> n, s |-> <<>>]
VDouble(x) == [k |-> "double", n |-> x, s |-> <<>>]
VString(b) == [k |-> "string", n |-> 0, s |-> b]

IsDigits(s) == s # <<>> /\ \A i \in DOMAIN s : s[i] \in 48..57

RECURSIVE DigitsValue(_)
DigitsValue(s) ==
    IF s = <<>> THEN 0 ELSE 10 * DigitsValue(SubSeq(s, 1, Len(s) - 1)) + (s[Len(s)] - 48)

RECURSIVE DecimalDigits(_)
DecimalDigits(n) ==
    IF n < 10 THEN << 48 + n >> ELSE Append(DecimalDigits(n \div 10), 48 + (n % 10))

\* QVariant::toInt, toDouble, toString (strings of decimal digits only)
VariantToInt(v) ==
    CASE v.k = "short" -> v.n
      [] v.k = "double" -> (IF v.n = NaN THEN 0 ELSE v.n)
      [] OTHER -> (IF IsDigits(v.s) THEN DigitsValue(v.s) ELSE 0)

VariantToDouble(v) ==
    CASE v.k = "short" -> v.n
      [] v.k = "double" -> v.n
      [] OTHER -> (IF IsDigits(v.s) THEN DigitsValue(v.s) ELSE 0)

VariantToString(v) ==
    CASE v.k = "string" -> v.s
      [] v.n = NaN -> <<110, 97, 110>>
      [] v.n < 0 -> <<45>> \o DecimalDigits(0 - v.n)
      [] OTHER -> DecimalDigits(v.n)

\* conversion of an int to quint16
ToU16(n) == n % 65536

\* what a read outside a QVariantList yields when it does not crash
GarbageVariants == { VShort(0), VShort(1) }

\* QList::constLast() and QList::at(i): undefined outside the list
ListLast(vals) ==
    IF vals = <<>>
    THEN {[crash |-> TRUE, v |-> VShort(0)]} \cup {[crash |-> FALSE, v |-> g] : g \in GarbageVariants}
    ELSE {[crash |-> FALSE, v |-> vals[Len(vals)]]}

ListAt(vals, i) ==
    IF i >= Len(vals)
    THEN {[crash |-> TRUE, v |-> VShort(0)]} \cup {[crash |-> FALSE, v |-> g] : g \in GarbageVariants}
    ELSE {[crash |-> FALSE, v |-> vals[i + 1]]}

RECURSIVE Split0(_)
\* QByteArray::split(0): the segments between NUL bytes, the one after the
\* last NUL included
Split0(bytes) ==
    IF \A i \in DOMAIN bytes : bytes[i] # 0 THEN << bytes >>
    ELSE LET i == CHOOSE j \in DOMAIN bytes :
                      bytes[j] = 0 /\ \A k \in 1..(j - 1) : bytes[k] # 0
         IN << SubSeq(bytes, 1, i - 1) >> \o Split0(SubSeq(bytes, i + 1, Len(bytes)))

\* typeSize * count in 32 bits
Double32(b) ==
    LET v1 == 2 * b[1]
        v2 == 2 * b[2] + (v1 \div 256)
        v3 == 2 * b[3] + (v2 \div 256)
        v4 == 2 * b[4] + (v3 \div 256)
    IN << v1 % 256, v2 % 256, v3 % 256, v4 % 256 >>

Mul32(typeSize, b) ==
    CASE typeSize = 1 -> b
      [] typeSize = 2 -> Double32(b)
      [] typeSize = 4 -> Double32(Double32(b))
      [] typeSize = 8 -> Double32(Double32(Double32(b)))
      [] OTHER -> << 0, 0, 0, 0 >>

\* b > n for a 32-bit b and n < 256
Greater32(b, n) == b[2] # 0 \/ b[3] # 0 \/ b[4] # 0 \/ b[1] > n

\* the number of values of size bytes that count asks for can be read at q
CanRead(q, count, size) ==
    /\ ~U32IsHuge(count)
    /\ U32Value(count) <= Available(q)
    /\ U32Value(count) * size <= Available(q)

ShortsAt(q, n, order) ==
    [i \in 1..n |-> VShort(U16Value(ToHostOrder(ReadAt(q + 2 * (i - 1), 2), order)))]

DoublesAt(q, n, order) ==
    [i \in 1..n |-> VDouble(DoubleValue(ToHostOrder(ReadAt(q + 8 * (i - 1), 8), order)))]

StringsOf(bytes) == LET parts == Split0(bytes) IN [i \in DOMAIN parts |-> VString(parts[i])]

---------------------------------------------------------------------------
(* FileFormats::GeoTIFF *)

ErrDevice == "device error"
ErrInvalidTIFF == "Invalid TIFF file"
ErrBigTIFF == "BigTIFF files are not supported"
ErrVersion == "Unsupported TIFF version"
ErrReadPastEnd == "Read past end of data stream."
ErrCannotRead == "Cannot read data."
ErrTagNotSet(tag) ==
    CASE tag = TagImageWidth -> "Tag 256 is not set"
      [] tag = TagImageHeight -> "Tag 257 is not set"
      [] tag = TagModelPixelScale -> "Tag 33550 is not set"
      [] OTHER -> "Tag 33922 is not set"
WarnTooManyTags == "Found more than 100 tags in the TIFF file. Reading only the first 100."

\* DataFileAbstract::isValid
IsValid == m_error = ""

\* the variables of TiffFile, which GeoTIFF leaves alone
TiffFileVars == << header, ifdEntries, geo, rect, thrown >>

\* catch (QString& message) { setError(message); }
GeoTIFFThrow(message, at, ops) ==
    /\ m_error' = message
    /\ pc' = "done"
    /\ pos' = at
    /\ trace' = trace \o ops
    /\ UNCHANGED << byteOrder, tagCount, idx, m_TIFFFields, m_bBox, m_name,
                    m_warnings >>

\* the constructor: open the file, seek to its beginning
GeoTIFFOpen ==
    /\ impl = "GeoTIFF"
    /\ pc = "start"
    /\ IF ~openOk
       THEN GeoTIFFThrow(ErrDevice, pos, <<>>)
       ELSE /\ pc' = "magic"
            /\ pos' = 0
            /\ trace' = Append(trace, Op("seek", "start", 0))
            /\ UNCHANGED << byteOrder, tagCount, idx, m_TIFFFields, m_bBox,
                            m_name, m_error, m_warnings >>
    /\ UNCHANGED InputVars
    /\ UNCHANGED TiffFileVars

\* readTIFFData: check magic bytes
ReadMagic ==
    /\ impl = "GeoTIFF"
    /\ pc = "magic"
    /\ LET magicBytes == ReadAt(pos, 2)
           ops == << Op("read", "magic", pos) >>
       IN IF magicBytes \in {MagicII, MagicMM}
          THEN /\ byteOrder' = (IF magicBytes = MagicII THEN LittleEndian ELSE BigEndian)
               /\ pc' = "version"
               /\ pos' = pos + 2
               /\ trace' = trace \o ops
               /\ UNCHANGED << tagCount, idx, m_TIFFFields, m_bBox, m_name,
                               m_error, m_warnings >>
          ELSE GeoTIFFThrow(ErrInvalidTIFF, pos + Len(magicBytes), ops)
    /\ UNCHANGED InputVars
    /\ UNCHANGED TiffFileVars

\* ReadVersion without the test of the version
ReadVersionUnchecked ==
    /\ impl = "GeoTIFF"
    /\ pc = "version"
    /\ pc' = "ifd0Offset"
    /\ pos' = pos + 2
    /\ trace' = Append(trace, Op("read", "version", pos))
    /\ UNCHANGED << byteOrder, tagCount, idx, m_TIFFFields, m_bBox,
                    m_name, m_error, m_warnings >>
    /\ UNCHANGED InputVars
    /\ UNCHANGED TiffFileVars

\* readTIFFData: version.  A short read leaves version = 0.
ReadVersion ==
    /\ impl = "GeoTIFF"
    /\ pc = "version"
    /\ LET bytes == ReadAt(pos, 2)
           version == IF Len(bytes) = 2 THEN U16Value(ToHostOrder(bytes, byteOrder)) ELSE 0
           ops == << Op("read", "version", pos) >>
       IN IF version = VersionBigTiff
          THEN GeoTIFFThrow(ErrBigTIFF, pos + Len(bytes), ops)
          ELSE IF version # VersionClassic
          THEN GeoTIFFThrow(ErrVersion, pos + Len(bytes), ops)
          ELSE /\ pc' = "ifd0Offset"
               /\ pos' = pos + 2
               /\ trace' = trace \o ops
               /\ UNCHANGED << byteOrder, tagCount, idx, m_TIFFFields, m_bBox,
                               m_name, m_error, m_warnings >>
    /\ UNCHANGED InputVars
    /\ UNCHANGED TiffFileVars

\* readTIFFData: ifd0Offset, and the seek to it
ReadIfd0Offset ==
    /\ impl = "GeoTIFF"
    /\ pc = "ifd0Offset"
    /\ LET bytes == ReadAt(pos, 4)
           ops == << Op("read", "ifd0Offset", pos) >>
       IN IF Len(bytes) < 4
          THEN GeoTIFFThrow(ErrReadPastEnd, pos + Len(bytes), ops)
          ELSE LET result == U32Position(ToHostOrder(bytes, byteOrder))
               IN \E ok \in SeekOutcomes(result) :
                    IF ~ok
                    THEN GeoTIFFThrow(ErrDevice, pos + 4, Append(ops, Op("seek", "ifd0", result)))
                    ELSE /\ pc' = "tagCount"
                         /\ pos' = result
                         /\ trace' = trace \o Append(ops, Op("seek", "ifd0", result))
                         /\ UNCHANGED << byteOrder, tagCount, idx, m_TIFFFields,
                                         m_bBox, m_name, m_error, m_warnings >>
    /\ UNCHANGED InputVars
    /\ UNCHANGED TiffFileVars

\* a reader that takes the number of entries as the file states it
UncappedTagCount(n) == n

\* readTIFFData: the number of entries it reads, at most 100
CappedTagCount(n) == IF n > MaxTagCount THEN MaxTagCount ELSE n

\* readTIFFData: tagCount, capped at 100 with a warning
ReadTagCount ==
    /\ impl = "GeoTIFF"
    /\ pc = "tagCount"
    /\ LET bytes == ReadAt(pos, 2)
           ops == << Op("read", "tagCount", pos) >>
       IN IF Len(bytes) < 2
          THEN GeoTIFFThrow(ErrReadPastEnd, pos + Len(bytes), ops)
          ELSE LET n == U16Value(ToHostOrder(bytes, byteOrder))
               IN /\ tagCount' = CappedTagCount(n)
                  /\ m_warnings' = (IF n > MaxTagCount
                                    THEN Append(m_warnings, WarnTooManyTags)
                                    ELSE m_warnings)
                  /\ idx' = 0
                  /\ pc' = "fields"
                  /\ pos' = pos + 2
                  /\ trace' = trace \o ops
                  /\ UNCHANGED << byteOrder, m_TIFFFields, m_bBox, m_name, m_error >>
    /\ UNCHANGED InputVars
    /\ UNCHANGED TiffFileVars

\* readTIFFField: read data entries from the device, by type
DecodeValues(q, type, count, order) ==
    CASE type = DT_Ascii ->
             IF ~U32IsHuge(count) /\ U32Value(count) <= Available(q)
             THEN [err |-> "", values |-> StringsOf(ReadAt(q, U32Value(count)))]
             ELSE [err |-> ErrCannotRead, values |-> <<>>]
      [] type = DT_Short ->
             IF CanRead(q, count, 2)
             THEN [err |-> "", values |-> ShortsAt(q, U32Value(count), order)]
             ELSE [err |-> ErrReadPastEnd, values |-> <<>>]
      [] type = DT_Double ->
             IF CanRead(q, count, 8)
             THEN [err |-> "", values |-> DoublesAt(q, U32Value(count), order)]
             ELSE [err |-> ErrReadPastEnd, values |-> <<>>]
      [] OTHER -> [err |-> "", values |-> <<>>]

\* a reader that goes on where the values of the entry ended
NextEntryPosNoSeek(filePos, valuesEnd) == valuesEnd

\* readTIFFField: the position it seeks to before it returns, whatever
\* position the reading of the values left
NextEntryPos(filePos, valuesEnd) == filePos + 4

\* readTIFFField at position p: what it throws, or the tag, its values and
\* the position of the device
FieldOutcomes(p, order) ==
    LET hdr == ReadAt(p, 8)
        tag == U16Value(ToHostOrder(SubSeq(hdr, 1, 2), order))
        type == U16Value(ToHostOrder(SubSeq(hdr, 3, 4), order))
        count == ToHostOrder(SubSeq(hdr, 5, 8), order)
        typeSize == TypeSize(type)
        filePos == p + 8
        byteSize == Mul32(typeSize, count)
        readEntry == << Op("read", "entry", p) >>
        Fail(message, ops) ==
            [err |-> message, tag |-> 0, values |-> <<>>, ops |-> ops, next |-> p]
        After(q, ops) ==
            LET d == DecodeValues(q, type, count, order)
                valuesEnd == IF type \in {DT_Ascii, DT_Short, DT_Double} /\ d.err = ""
                             THEN q + typeSize * U32Value(count) ELSE q
                next == NextEntryPos(filePos, valuesEnd)
                ops2 == Append(Append(ops, Op("read", "value", q)),
                               Op("seek", "next", next))
            IN IF d.err # ""
               THEN { Fail(d.err, Append(ops, Op("read", "value", q))) }
               ELSE { IF ok THEN [err |-> "", tag |-> tag, values |-> d.values, ops |-> ops2,
                                  next |-> next]
                      ELSE Fail(ErrDevice, ops2) : ok \in SeekOutcomes(next) }
    IN IF Len(hdr) < 8
       THEN { Fail(ErrReadPastEnd, readEntry) }
       ELSE IF Greater32(byteSize, 4)
       THEN LET field == ReadAt(filePos, 4)
                newPos == U32Position(ToHostOrder(field, order))
                ops == Append(readEntry, Op("read", "valueOffset", filePos))
            IN IF Len(field) < 4
               THEN { Fail(ErrReadPastEnd, ops) }
               ELSE UNION { IF ok THEN After(newPos, Append(ops, Op("seek", "value", newPos)))
                            ELSE { Fail(ErrDevice, Append(ops, Op("seek", "value", newPos))) } :
                            ok \in SeekOutcomes(newPos) }
       ELSE After(filePos, readEntry)

\* a map that keeps the values it first got for a tag
PutFieldOnce(fields, tag, values) ==
    [t \in DOMAIN fields \cup {tag} |-> IF t \in DOMAIN fields THEN fields[t] ELSE values]

\* m_TIFFFields[tag] = values
PutField(fields, tag, values) ==
    [t \in DOMAIN fields \cup {tag} |-> IF t = tag THEN values ELSE fields[t]]

\* readTIFFData: one round of the loop over the entries
ReadTIFFField ==
    /\ impl = "GeoTIFF"
    /\ pc = "fields"
    /\ idx < tagCount
    /\ \E o \in FieldOutcomes(pos, byteOrder) :
         IF o.err # ""
         THEN GeoTIFFThrow(o.err, pos, o.ops)
         ELSE /\ m_TIFFFields' = PutField(m_TIFFFields, o.tag, o.values)
              /\ idx' = idx + 1
              /\ pos' = o.next
              /\ trace' = trace \o o.ops
              /\ UNCHANGED << pc, byteOrder, tagCount, m_bBox, m_name, m_error,
                              m_warnings >>
    /\ UNCHANGED InputVars
    /\ UNCHANGED TiffFileVars

\* BoundingBox without the branch on the sign of pixelHeight
BoundingBoxNoBranch(width, height, longitute, latitude, pixelWidth, pixelHeight) ==
    [topLeft |-> [lon |-> longitute, lat |-> latitude],
     bottomRight |->
         [lon |-> DAdd(longitute, DMul(width - 1, pixelWidth)),
          lat |-> DAdd(latitude, DMul(height - 1, pixelHeight))]]

\* interpretGeoData, lines 330-343: the corners of the bounding box
BoundingBox(width, height, longitute, latitude, pixelWidth, pixelHeight) ==
    [topLeft |-> [lon |-> longitute, lat |-> latitude],
     bottomRight |->
         [lon |-> DAdd(longitute, DMul(width - 1, pixelWidth)),
          lat |-> IF DPositive(pixelHeight)
                  THEN DSub(latitude, DMul(height - 1, pixelHeight))
                  ELSE DAdd(latitude, DMul(height - 1, pixelHeight))]]

\* Description without the test for tag 270
DescriptionUnguarded(fields) ==
    ListLast(IF TagImageDescription \in DOMAIN fields
             THEN fields[TagImageDescription] ELSE <<>>)

\* interpretGeoData, lines 324-327: the description, an empty string
\* unless the file holds tag 270
Description(fields) ==
    IF TagImageDescription \in DOMAIN fields
    THEN ListLast(fields[TagImageDescription])
    ELSE { [crash |-> FALSE, v |-> VString(<<>>)] }

\* interpretGeoData: what it throws, whether it crashes, or the bounding
\* box and the name it assigns
InterpretOutcomes(fields) ==
    LET Throws(tag) == { [kind |-> "throw", msg |-> ErrTagNotSet(tag),
                          bBox |-> InvalidRect, name |-> <<>>] }
        Crash == { [kind |-> "crash", msg |-> "", bBox |-> InvalidRect, name |-> <<>>] }
        Has(tag) == tag \in DOMAIN fields
        Descs == Description(fields)
        Scale(w, h, lon, lat) ==
            IF ~Has(TagModelPixelScale) THEN Throws(TagModelPixelScale)
            ELSE UNION { IF pw.crash \/ ph.crash \/ d.crash THEN Crash
                         ELSE { [kind |-> "ok", msg |-> "",
                                 bBox |-> BoundingBox(ToU16(VariantToInt(w.v)),
                                                      ToU16(VariantToInt(h.v)),
                                                      VariantToDouble(lon.v),
                                                      VariantToDouble(lat.v),
                                                      VariantToDouble(pw.v),
                                                      VariantToDouble(ph.v)),
                                 name |-> VariantToString(d.v)] } :
                         pw \in ListAt(fields[TagModelPixelScale], 0),
                         ph \in ListAt(fields[TagModelPixelScale], 1),
                         d \in Descs }
        TiePoint(w, h) ==
            IF ~Has(TagModelTiepoint) THEN Throws(TagModelTiepoint)
            ELSE UNION { IF lon.crash \/ lat.crash THEN Crash ELSE Scale(w, h, lon, lat) :
                         lon \in ListAt(fields[TagModelTiepoint], 3),
                         lat \in ListAt(fields[TagModelTiepoint], 4) }
        Height(w) ==
            IF ~Has(TagImageHeight) THEN Throws(TagImageHeight)
            ELSE UNION { IF h.crash THEN Crash ELSE TiePoint(w, h) :
                         h \in ListLast(fields[TagImageHeight]) }
    IN IF ~Has(TagImageWidth) THEN Throws(TagImageWidth)
       ELSE UNION { IF w.crash THEN Crash ELSE Height(w) :
                    w \in ListLast(fields[TagImageWidth]) }

\* readTIFFData: interpretGeoData() after the loop
InterpretGeoData ==
    /\ impl = "GeoTIFF"
    /\ pc = "fields"
    /\ idx >= tagCount
    /\ \E o \in InterpretOutcomes(m_TIFFFields) :
         /\ pc' = (IF o.kind = "crash" THEN "crashed" ELSE "done")
         /\ m_error' = (IF o.kind = "throw" THEN o.msg ELSE m_error)
         /\ m_bBox' = (IF o.kind = "ok" THEN o.bBox ELSE m_bBox)
         /\ m_name' = (IF o.kind = "ok" THEN o.name ELSE m_name)
    /\ UNCHANGED << pos, byteOrder, tagCount, idx, m_TIFFFields, m_warnings, trace >>
    /\ UNCHANGED InputVars
    /\ UNCHANGED TiffFileVars

GeoTIFFNext ==
    \/ GeoTIFFOpen
    \/ ReadMagic
    \/ ReadVersion
    \/ ReadIfd0Offset
    \/ ReadTagCount
    \/ ReadTIFFField
    \/ InterpretGeoData


---------------------------------------------------------------------------
(* TiffFile and GeoMaps::GeoImage::readCoordinates *)

ErrInvalidTiff == "Invalid tiff file"
ErrUnknownVersion == "Invalid tiff file: Unknown version"
ErrFileRead == "File read error"
ErrSeekPos == "Fail to seek pos: "

\* the variables of GeoTIFF, which TiffFile leaves alone
GeoTIFFVars == << m_TIFFFields, m_bBox, m_name, m_warnings >>

\* a reader that takes every file for a classic one
IsBigTiffNever(h) == FALSE

\* Header::isBigTiff
IsBigTiff(h) == h.version = VersionBigTiff

\* an unsigned value of 4 or 8 bytes in host order
UIsHuge(b) == b[4] >= 128 \/ \E i \in 5..Len(b) : b[i] # 0
UPosition(b) == IF UIsHuge(b) THEN PosLimit ELSE U32Value(b)
UIsZero(b) == \A i \in DOMAIN b : b[i] = 0
UGreater(b, n) == (\E i \in 2..Len(b) : b[i] # 0) \/ b[1] > n

\* 2 * b in the width of b
Twice(b) ==
    [i \in 1..Len(b) |-> (2 * b[i] + (IF i > 1 /\ b[i - 1] >= 128 THEN 1 ELSE 0)) % 256]

\* count * typeSize in the width of count
MulWrap(typeSize, b) ==
    CASE typeSize = 1 -> b
      [] typeSize = 2 -> Twice(b)
      [] typeSize = 4 -> Twice(Twice(b))
      [] typeSize = 8 -> Twice(Twice(Twice(b)))
      [] OTHER -> [i \in DOMAIN b |-> 0]

\* what a read outside a buffer yields when it does not crash
GarbageBytes == {0, 255}

PadTo(bytes, n, g) ==
    IF Len(bytes) >= n THEN bytes ELSE bytes \o [i \in 1..(n - Len(bytes)) |-> g]

\* a throw inside the constructor leaves readCoordinates, which calls the
\* constructor outside its try block
TiffFileEscape(message, at, ops) ==
    /\ thrown' = message
    /\ pc' = "escaped"
    /\ pos' = at
    /\ trace' = trace \o ops
    /\ UNCHANGED << byteOrder, tagCount, idx, m_error, header, ifdEntries, geo, rect >>

\* TiffFile::TiffFile: open the file
TiffFileOpen ==
    /\ impl = "TiffFile"
    /\ pc = "start"
    /\ m_error' = (IF openOk THEN m_error ELSE ErrDevice)
    /\ pc' = "header"
    /\ UNCHANGED << pos, byteOrder, tagCount, idx, header, ifdEntries, geo, rect,
                    thrown, trace >>
    /\ UNCHANGED InputVars
    /\ UNCHANGED GeoTIFFVars

\* readHeader: what it sets, or the error; a BigTIFF header shorter than
\* 16 bytes is read outside rawBytes
HeaderOutcomes ==
    LET headerBytes == IF openOk THEN ReadAt(pos, 8) ELSE <<>>
        magicBytes == SubSeq(headerBytes, 1, 2)
        order == IF magicBytes = MagicII THEN LittleEndian ELSE BigEndian
        version == U16Value(ToHostOrder(SubSeq(headerBytes, 3, 4), order))
        Error(message, o, v) ==
            [kind |-> "error", msg |-> message, order |-> o, version |-> v,
             ifd0Offset |-> 0, read |-> 0]
        Ok(v, offset, n) ==
            [kind |-> "ok", msg |-> "", order |-> order, version |-> v,
             ifd0Offset |-> offset, read |-> n]
        rawBytes == ReadAt(pos, IF version = VersionBigTiff THEN 16 ELSE 8)
        Offset64(raw) ==
            LET b == ToHostOrder(SubSeq(raw, 9, 16), order)
            IN IF b[8] >= 128 THEN -1 ELSE UPosition(b)
    IN IF Len(headerBytes) # 8
       THEN { Error(ErrInvalidTiff, byteOrder, header.version) }
       ELSE IF magicBytes \notin {MagicII, MagicMM}
       THEN { Error(ErrInvalidTiff, byteOrder, header.version) }
       ELSE IF version # VersionClassic /\ version # VersionBigTiff
       THEN { Error(ErrUnknownVersion, order, version) }
       ELSE IF version = VersionClassic
       THEN { Ok(version, UPosition(ToHostOrder(SubSeq(rawBytes, 5, 8), order)), 8) }
       ELSE IF Len(rawBytes) = 16
       THEN { Ok(version, Offset64(rawBytes), 16) }
       ELSE { [kind |-> "crash", msg |-> "", order |-> order, version |-> version,
               ifd0Offset |-> 0, read |-> Len(rawBytes)] }
            \cup { Ok(version, Offset64(PadTo(rawBytes, 16, g)), Len(rawBytes)) :
                   g \in GarbageBytes }

\* TiffFile::TiffFile: readHeader(); on failure the constructor returns
ReadHeader ==
    /\ impl = "TiffFile"
    /\ pc = "header"
    /\ \E o \in HeaderOutcomes :
         /\ byteOrder' = o.order
         /\ header' = [version |-> o.version, ifd0Offset |-> o.ifd0Offset]
         /\ m_error' = (IF o.kind = "error" THEN o.msg ELSE m_error)
         /\ pc' = (CASE o.kind = "error" -> "getRect"
                     [] o.kind = "crash" -> "crashed"
                     [] OTHER -> "ifd")
         /\ pos' = pos + o.read
         /\ trace' = (IF openOk THEN Append(trace, Op("read", "header", pos)) ELSE trace)
    /\ UNCHANGED << tagCount, idx, ifdEntries, geo, rect, thrown >>
    /\ UNCHANGED InputVars
    /\ UNCHANGED GeoTIFFVars

\* readIfd: seek to the offset and read the number of entries
ReadIfdCount ==
    /\ impl = "TiffFile"
    /\ pc = "ifd"
    /\ IF header.ifd0Offset < 0
       THEN /\ m_error' = ErrDevice
            /\ pc' = "getRect"
            /\ trace' = Append(trace, Op("seek", "ifd0", header.ifd0Offset))
            /\ UNCHANGED << pos, byteOrder, tagCount, idx, header, ifdEntries, geo,
                            rect, thrown >>
       ELSE LET size == IF IsBigTiff(header) THEN 8 ELSE 2
                at == header.ifd0Offset
                bytes == ReadAt(at, size)
                ops == << Op("seek", "ifd0", at), Op("read", "tagCount", at) >>
            IN IF Len(bytes) # size
               THEN TiffFileEscape(ErrFileRead, at + Len(bytes), ops)
               ELSE /\ tagCount' = UPosition(PadTo(ToHostOrder(bytes, byteOrder), 4, 0))
                    /\ idx' = 0
                    /\ pc' = "entries"
                    /\ pos' = at + size
                    /\ trace' = trace \o ops
                    /\ UNCHANGED << byteOrder, m_error, header, ifdEntries, geo, rect,
                                    thrown >>
    /\ UNCHANGED InputVars
    /\ UNCHANGED GeoTIFFVars

\* readIfd: one round of the loop over the directory entries
ReadIfdEntry ==
    /\ impl = "TiffFile"
    /\ pc = "entries"
    /\ idx < tagCount
    /\ LET countSize == IF IsBigTiff(header) THEN 8 ELSE 4
           fixed == ReadAt(pos, 4 + countSize)
           tag == U16Value(ToHostOrder(SubSeq(fixed, 1, 2), byteOrder))
           type == U16Value(ToHostOrder(SubSeq(fixed, 3, 4), byteOrder))
           count == PadTo(ToHostOrder(SubSeq(fixed, 5, 4 + countSize), byteOrder), 8, 0)
           valueOrOffset == ReadAt(pos + 4 + countSize, countSize)
           ops == << Op("read", "entry", pos) >>
       IN IF Len(fixed) # 4 + countSize
          THEN TiffFileEscape(ErrFileRead, pos + Len(fixed), ops)
          ELSE /\ ifdEntries' =
                     (IF tag \in RequiredTags
                      THEN Append(ifdEntries, [tag |-> tag, type |-> type, count |-> count,
                                               valueOrOffset |-> valueOrOffset])
                      ELSE ifdEntries)
               /\ idx' = idx + 1
               /\ pos' = pos + 4 + countSize + Len(valueOrOffset)
               /\ trace' = trace \o ops
               /\ UNCHANGED << pc, byteOrder, tagCount, m_error, header, geo, rect,
                               thrown >>
    /\ UNCHANGED InputVars
    /\ UNCHANGED GeoTIFFVars

\* readIfd: nextIfdOffset, after the loop
ReadNextIfdOffset ==
    /\ impl = "TiffFile"
    /\ pc = "entries"
    /\ idx >= tagCount
    /\ LET size == IF IsBigTiff(header) THEN 8 ELSE 4
           bytes == ReadAt(pos, size)
           ops == << Op("read", "nextIfd", pos) >>
       IN IF Len(bytes) # size
          THEN TiffFileEscape(ErrFileRead, pos + Len(bytes), ops)
          ELSE /\ pc' = "parse"
               /\ idx' = 0
               /\ pos' = pos + size
               /\ trace' = trace \o ops
               /\ UNCHANGED << byteOrder, tagCount, m_error, header, ifdEntries, geo,
                               rect, thrown >>
    /\ UNCHANGED InputVars
    /\ UNCHANGED GeoTIFFVars

\* the most values of one entry the model decodes when parserValues reads
\* outside valueBytes
OverreadValues == 8

\* TiffIfdEntryPrivate::parserValues: count values decoded from bytes
ParserValues(bytes, type, n, order) ==
    CASE type = DT_Short ->
             [i \in 1..n |-> VShort(U16Value(ToHostOrder(SubSeq(bytes, 2 * i - 1, 2 * i), order)))]
      [] type = DT_Double ->
             [i \in 1..n |-> VDouble(DoubleValue(
                                 IF order = BigEndian
                                 THEN Reverse(SubSeq(bytes, 8 * i - 7, 8 * i))
                                 ELSE SubSeq(bytes, 8 * i - 7, 8 * i)))]
      [] OTHER -> <<>>

\* readIfd, "parser data of ifdEntry": the values of one retained entry, or
\* that it is skipped, that the seek throws, or that the read outside the
\* buffer crashes
EntryValueOutcomes(de, h, order) ==
    LET typeSize == TypeSize(de.type)
        valueBytesCount == MulWrap(typeSize, de.count)
        inlineSize == IF IsBigTiff(h) THEN 8 ELSE 4
        offsetBytes == ToHostOrder(de.valueOrOffset, order)
        negative == IsBigTiff(h) /\ offsetBytes[8] >= 128
        valueOffset == UPosition(offsetBytes)
        outOfLine == UGreater(valueBytesCount, inlineSize)
        wanted == IF UIsHuge(valueBytesCount) THEN PosLimit ELSE U32Value(valueBytesCount)
        valueBytes == IF outOfLine THEN ReadAt(valueOffset, Min(wanted, Available(valueOffset)))
                      ELSE de.valueOrOffset
        decoded == de.type \in {DT_Short, DT_Double}
        enough == ~UIsHuge(de.count) /\ U32Value(de.count) <= Len(valueBytes)
                  /\ U32Value(de.count) * typeSize <= Len(valueBytes)
        n == IF UIsHuge(de.count) \/ U32Value(de.count) > OverreadValues
             THEN OverreadValues ELSE U32Value(de.count)
        ops == IF outOfLine
               THEN << Op("seek", "value", valueOffset), Op("read", "value", valueOffset) >>
               ELSE <<>>
        Out(kind, values) ==
            [kind |-> kind, values |-> values, ops |-> ops,
             pos |-> IF outOfLine THEN valueOffset + Len(valueBytes) ELSE pos]
    IN IF UIsZero(valueBytesCount) THEN { [kind |-> "skip", values |-> <<>>, ops |-> <<>>, pos |-> pos] }
       ELSE IF outOfLine /\ negative
       THEN { [kind |-> "throw", values |-> <<>>,
               ops |-> << Op("seek", "value", -1) >>, pos |-> pos] }
       ELSE IF ~decoded THEN { Out("ok", <<>>) }
       ELSE IF enough THEN { Out("ok", ParserValues(valueBytes, de.type, U32Value(de.count), order)) }
       ELSE { Out("crash", <<>>) }
            \cup { Out("ok", ParserValues(PadTo(valueBytes, n * typeSize, g), de.type, n, order)) :
                   g \in GarbageBytes }

\* readIfd: the fields of geo that the entry of a tag sets
GeoOutcomes(g, tag, values) ==
    CASE tag = TagImageWidth ->
             { IF w.crash THEN [crash |-> TRUE, geo |-> g]
               ELSE [crash |-> FALSE, geo |-> [g EXCEPT !.width = ToU16(VariantToInt(w.v))]] :
               w \in ListLast(values) }
      [] tag = TagImageHeight ->
             { IF h.crash THEN [crash |-> TRUE, geo |-> g]
               ELSE [crash |-> FALSE, geo |-> [g EXCEPT !.height = ToU16(VariantToInt(h.v))]] :
               h \in ListLast(values) }
      [] tag = TagModelPixelScale ->
             { IF pw.crash \/ ph.crash THEN [crash |-> TRUE, geo |-> g]
               ELSE [crash |-> FALSE,
                     geo |-> [g EXCEPT !.pixelWidth = VariantToDouble(pw.v),
                                       !.pixelHeight = VariantToDouble(ph.v)]] :
               pw \in ListAt(values, 0), ph \in ListAt(values, 1) }
      [] OTHER ->
             { IF lon.crash \/ lat.crash THEN [crash |-> TRUE, geo |-> g]
               ELSE [crash |-> FALSE,
                     geo |-> [g EXCEPT !.longitute = VariantToDouble(lon.v),
                                       !.latitude = VariantToDouble(lat.v)]] :
               lon \in ListAt(values, 3), lat \in ListAt(values, 4) }

\* readIfd: one round of the loop over the retained entries
ParseIfdEntry ==
    /\ impl = "TiffFile"
    /\ pc = "parse"
    /\ idx < Len(ifdEntries)
    /\ LET de == ifdEntries[idx + 1]
       IN \E o \in EntryValueOutcomes(de, header, byteOrder) :
            IF o.kind = "throw" THEN TiffFileEscape(ErrSeekPos, o.pos, o.ops)
            ELSE \E r \in (IF o.kind = "ok" THEN GeoOutcomes(geo, de.tag, o.values)
                           ELSE { [crash |-> o.kind = "crash", geo |-> geo] }) :
                   /\ pc' = (IF r.crash THEN "crashed" ELSE pc)
                   /\ geo' = r.geo
                   /\ idx' = idx + 1
                   /\ pos' = o.pos
                   /\ trace' = trace \o o.ops
                   /\ UNCHANGED << byteOrder, tagCount, m_error, header, ifdEntries,
                                   rect, thrown >>
    /\ UNCHANGED InputVars
    /\ UNCHANGED GeoTIFFVars

\* TiffFile::TiffFile returns once every retained entry is parsed
ReadIfdDone ==
    /\ impl = "TiffFile"
    /\ pc = "parse"
    /\ idx >= Len(ifdEntries)
    /\ pc' = "getRect"
    /\ UNCHANGED << pos, byteOrder, tagCount, idx, m_error, header, ifdEntries, geo,
                    rect, thrown, trace >>
    /\ UNCHANGED InputVars
    /\ UNCHANGED GeoTIFFVars

\* getRect, lines 595-603: the corners of the rectangle
RectOf(g) ==
    [topLeft |-> [lon |-> g.longitute, lat |-> g.latitude],
     bottomRight |-> [lon |-> DAdd(g.longitute, DMul(g.width - 1, g.pixelWidth)),
                      lat |-> DAdd(g.latitude, DMul(g.height - 1, g.pixelHeight))]]

\* getRect, lines 578-593: the QString it throws, "" if none
RectError(g) ==
    IF g.longitute = 0 \/ g.latitude = 0 THEN ErrTagNotSet(TagModelTiepoint)
    ELSE IF g.pixelWidth = 0 \/ g.pixelHeight = 0 THEN ErrTagNotSet(TagModelPixelScale)
    ELSE IF g.width = 0 THEN ErrTagNotSet(TagImageWidth)
    ELSE IF g.height = 0 THEN ErrTagNotSet(TagImageHeight)
    ELSE ""

\* readCoordinates: return tiff.getRect(), or {} when getRect throws
GetRect ==
    /\ impl = "TiffFile"
    /\ pc = "getRect"
    /\ thrown' = RectError(geo)
    /\ rect' = (IF RectError(geo) = "" THEN RectOf(geo) ELSE rect)
    /\ pc' = "done"
    /\ UNCHANGED << pos, byteOrder, tagCount, idx, m_error, header, ifdEntries, geo,
                    trace >>
    /\ UNCHANGED InputVars
    /\ UNCHANGED GeoTIFFVars

TiffFileNext ==
    \/ TiffFileOpen
    \/ ReadHeader
    \/ ReadIfdCount
    \/ ReadIfdEntry
    \/ ReadNextIfdOffset
    \/ ParseIfdEntry
    \/ ReadIfdDone
    \/ GetRect

Next == GeoTIFFNext \/ TiffFileNext

Spec == Init /\ [][Next]_vars


---------------------------------------------------------------------------
(* What a file carries, and what a run returned *)

HasEntry(c, tag) == \E i \in DOMAIN c.entries : c.entries[i].tag = tag

\* the entry of a tag; the last one counts when a tag is repeated
LastEntry(c, tag) ==
    LET i == CHOOSE j \in DOMAIN c.entries :
                 /\ c.entries[j].tag = tag
                 /\ \A k \in DOMAIN c.entries : c.entries[k].tag = tag => k <= j
    IN c.entries[i]

\* the header is one of a classic TIFF file, nothing of the file is cut, and
\* every entry states the number of its values and has them in their place
WholeFile(c) ==
    /\ c.magic = MagicOf(c.order)
    /\ c.version = VersionClassic
    /\ c.declIfd = c.ifdOffset
    /\ c.cut < 0
    /\ \A i \in DOMAIN c.entries :
           c.entries[i].off < 0 /\ c.entries[i].count = U32Bytes(Len(c.entries[i].vals))

\* a whole file none of whose entries of the five tags lies beyond the 100
\* entries that GeoTIFF reads
Intact(c) ==
    /\ WholeFile(c)
    /\ \A i \in DOMAIN c.entries : i > MaxTagCount => c.entries[i].tag \notin AllTags

\* the tag is stored as GeoTIFF writers store it: width and height as a
\* Short, the pixel scale as three doubles, the tie point as six doubles
Standard(c, tag) ==
    /\ HasEntry(c, tag)
    /\ LET e == LastEntry(c, tag)
       IN CASE tag \in {TagImageWidth, TagImageHeight} ->
                   e.type = DT_Short /\ Len(e.vals) >= 1
            [] tag = TagModelPixelScale -> e.type = DT_Double /\ Len(e.vals) = 3
            [] tag = TagModelTiepoint -> e.type = DT_Double /\ Len(e.vals) = 6
            [] OTHER -> e.type = DT_Ascii

\* the file carries width, height, pixel scale and tie point
Carries(c) == Intact(c) /\ \A tag \in RequiredTags : Standard(c, tag)

\* the values it carries
Carried(c) ==
    LET Last(s) == s[Len(s)]
    IN [w |-> Last(LastEntry(c, TagImageWidth).vals),
        h |-> Last(LastEntry(c, TagImageHeight).vals),
        sx |-> LastEntry(c, TagModelPixelScale).vals[1],
        sy |-> LastEntry(c, TagModelPixelScale).vals[2],
        lon |-> LastEntry(c, TagModelTiepoint).vals[4],
        lat |-> LastEntry(c, TagModelTiepoint).vals[5]]

\* the run has ended
Ended == pc \in {"done", "crashed", "escaped"}

\* the run has ended and returned a bounding box
Succeeded ==
    /\ pc = "done"
    /\ IF impl = "GeoTIFF" THEN m_error = "" ELSE thrown = ""

\* the run has ended in the error state
Failed ==
    /\ pc = "done"
    /\ IF impl = "GeoTIFF" THEN m_error # "" ELSE thrown # ""

\* the bounding box handed to the caller
ReturnedBox == IF impl = "GeoTIFF" THEN m_bBox ELSE rect

---------------------------------------------------------------------------
(* C1 *)

\* the box of section 4.5 of the specification
SpecBox(g) ==
    [topLeft |-> [lon |-> g.lon, lat |-> g.lat],
     bottomRight |-> [lon |-> g.lon + (g.w - 1) * g.sx,
                      lat |-> IF g.sy > 0 THEN g.lat - (g.h - 1) * g.sy
                              ELSE g.lat + (g.h - 1) * g.sy]]

\* C1: a successfully parsed file with width w, height h, pixel scale
\* (sx, sy) and tie point (lon, lat) returns the box with top-left
\* (lon, lat), bottom-right longitude lon + (w-1)*sx and bottom-right
\* latitude lat - (h-1)*sy when sy > 0, lat + (h-1)*sy otherwise.
C1_BoundingBox ==
    (Succeeded /\ Carries(content)) => ReturnedBox = SpecBox(Carried(content))

\* the same of GeoTIFF alone
C1_GeoTIFFBox ==
    (impl = "GeoTIFF" /\ Succeeded /\ Carries(content))
        => m_bBox = SpecBox(Carried(content))

C1_GeoTIFFBoxWitness ==
    /\ impl = "GeoTIFF" /\ Succeeded /\ Carries(content)
    /\ Carried(content).sy > 0 /\ Carried(content).h > 1


---------------------------------------------------------------------------
(* C2 *)

Abs(x) == IF x < 0 THEN -x ELSE x

---------------------------------------------------------------------------
(* C3 *)

\* the error a run ended with
Error == IF impl = "GeoTIFF" THEN m_error ELSE thrown

\* the required tags the file does not hold
Absent(c) == { tag \in RequiredTags : ~HasEntry(c, tag) }

\* C3: when the whole first IFD has been scanned and one of the tags 256,
\* 257, 33550, 33922 was not found, the parse ends in the error state with
\* the missing-tag error of an absent tag and without a bounding box,
\* whichever tags are absent and whatever the order of the entries.
C3_MissingTag ==
    (Ended /\ openOk /\ Intact(content) /\ Absent(content) # {}) =>
        /\ Failed
        /\ Error \in { ErrTagNotSet(tag) : tag \in Absent(content) }
        /\ ReturnedBox = InvalidRect

\* the values of the tag, as far as the decoders use them, are not 0
NonZero(c, tag) ==
    LET v == LastEntry(c, tag).vals
    IN CASE tag = TagModelPixelScale -> v[1] # 0 /\ v[2] # 0
         [] tag = TagModelTiepoint -> v[4] # 0 /\ v[5] # 0
         [] OTHER -> v[Len(v)] # 0

\* the same of files whose other required tags are stored as GeoTIFF
\* writers store them, with values other than 0
C3_MissingTagOfStandardFiles ==
    (/\ Ended /\ openOk /\ Intact(content) /\ Absent(content) # {}
     /\ \A tag \in RequiredTags \ Absent(content) :
            Standard(content, tag) /\ NonZero(content, tag)
     /\ HasEntry(content, TagImageDescription)
            => Standard(content, TagImageDescription)) =>
        /\ Failed
        /\ Error \in { ErrTagNotSet(tag) : tag \in Absent(content) }
        /\ ReturnedBox = InvalidRect

---------------------------------------------------------------------------
(* C4 *)

\* C4: a file in which tag 256 or tag 257 is present with the value 0 makes
\* the parse fail with the error of that tag, and no bounding box is
\* produced from a width or height of 0.
C4_ZeroSize ==
    (/\ Ended /\ openOk /\ Carries(content)
     /\ (Carried(content).w = 0 \/ Carried(content).h = 0)) =>
        /\ Failed
        /\ Error \in { ErrTagNotSet(tag) : tag \in RequiredTags }
        /\ ReturnedBox = InvalidRect

\* the same of TiffFile alone, which refuses a width or height of 0
C4_TiffFileZeroSize == impl = "TiffFile" => C4_ZeroSize

---------------------------------------------------------------------------
(* C5 *)

\* the values the file carries are valid, the tie point apart
ValidButTiePoint(g) == g.w > 0 /\ g.h > 0 /\ g.sx # 0 /\ g.sy # 0

\* C5: the missing-tie-point error is raised only when the file holds no
\* tag 33922; a file whose tie point has longitude 0 or latitude 0, and
\* whose other required tags are valid, parses successfully with that tie
\* point as the top-left corner of the box.
C5_ZeroTiePoint ==
    /\ (Failed /\ openOk /\ Intact(content) /\ Error = ErrTagNotSet(TagModelTiepoint))
           => ~HasEntry(content, TagModelTiepoint)
    /\ (/\ Ended /\ openOk /\ Carries(content)
        /\ ValidButTiePoint(Carried(content))
        /\ (Carried(content).lon = 0 \/ Carried(content).lat = 0)) =>
           /\ Succeeded
           /\ ReturnedBox.topLeft = [lon |-> Carried(content).lon,
                                     lat |-> Carried(content).lat]

\* the same of GeoTIFF alone
C5_GeoTIFFZeroTiePoint == impl = "GeoTIFF" => C5_ZeroTiePoint


---------------------------------------------------------------------------
(* C6 *)

\* the file holds the tag with as many numbers as the decoders take from it
Resolved(c, tag) ==
    /\ HasEntry(c, tag)
    /\ LastEntry(c, tag).type \in {DT_Short, DT_Double}
    /\ Len(LastEntry(c, tag).vals) >=
           (CASE tag = TagModelPixelScale -> 2
              [] tag = TagModelTiepoint -> 5
              [] OTHER -> 1)

\* width and height are not 0
Validated(c) ==
    LET Last(s) == s[Len(s)]
    IN /\ Last(LastEntry(c, TagImageWidth).vals) # 0
       /\ Last(LastEntry(c, TagImageHeight).vals) # 0

\* C6, first half: a run that ends in an error has assigned neither the
\* bounding box nor the name.
C6_ErrorLeavesNothing ==
    (Error # "" \/ m_error # "") => (ReturnedBox = InvalidRect /\ m_name = <<>>)

\* C6: no partial result. A run that ends in an error leaves the bounding
\* box and the name in their initial state, and they are assigned only in a
\* run in which every required tag was resolved and validated.
C6_NoPartialResult ==
    /\ C6_ErrorLeavesNothing
    /\ (ReturnedBox # InvalidRect \/ m_name # <<>>) =>
           /\ \A tag \in RequiredTags : Resolved(content, tag)
           /\ Validated(content)

\* the second half, of files that store width and height other than 0 and
\* every required tag as GeoTIFF writers store it
C6_AssignedFromStandardFiles ==
    (/\ \A tag \in RequiredTags :
            HasEntry(content, tag) => Standard(content, tag)
     /\ \A tag \in {TagImageWidth, TagImageHeight} :
            HasEntry(content, tag) => NonZero(content, tag)
     /\ HasEntry(content, TagImageDescription) => Standard(content, TagImageDescription)
     /\ (ReturnedBox # InvalidRect \/ m_name # <<>>)) =>
        \A tag \in RequiredTags : Resolved(content, tag)

---------------------------------------------------------------------------
(* C7 *)

\* width, height and pixel scale are valid
Valid(g) == g.w > 0 /\ g.h > 0 /\ g.sx # 0 /\ g.sy # 0

\* C7: tag 270 is optional. GeoTIFF parses every file that holds valid tags
\* 256, 257, 33550 and 33922 and no tag 270 successfully (isValid), and
\* name() is the empty string.
C7_DescriptionOptional ==
    (/\ impl = "GeoTIFF" /\ Ended /\ openOk
     /\ Carries(content) /\ Valid(Carried(content))
     /\ ~HasEntry(content, TagImageDescription)) =>
        /\ pc = "done"
        /\ IsValid
        /\ m_name = <<>>

\* GeoTIFF has parsed such a file and assigned its bounding box
C7_Witness ==
    /\ impl = "GeoTIFF" /\ pc = "done" /\ openOk
    /\ Carries(content) /\ Valid(Carried(content))
    /\ ~HasEntry(content, TagImageDescription)
    /\ m_bBox = SpecBox(Carried(content))
    /\ m_name = <<>>

---------------------------------------------------------------------------
(* C8 *)

\* the description the file was written with: the Ascii value of tag 270
\* without its NUL terminator
Written(c) ==
    LET v == LastEntry(c, TagImageDescription).vals
    IN SubSeq(v, 1, Len(v) - 1)

\* tag 270 holds a string without NUL bytes, followed by one NUL
Terminated(c) ==
    /\ HasEntry(c, TagImageDescription)
    /\ LET v == LastEntry(c, TagImageDescription).vals
       IN /\ LastEntry(c, TagImageDescription).type = DT_Ascii
          /\ v # <<>>
          /\ v[Len(v)] = 0
          /\ \A i \in 1..(Len(v) - 1) : v[i] # 0

\* the numbers GeoTIFF decoded are those the file was written with
DecodedNumbers ==
    LET g == Carried(content)
    IN /\ RequiredTags \subseteq DOMAIN m_TIFFFields
       /\ m_TIFFFields[TagImageWidth] = << VShort(g.w) >>
       /\ m_TIFFFields[TagImageHeight] = << VShort(g.h) >>
       /\ m_TIFFFields[TagModelPixelScale]
              = [i \in 1..3 |-> VDouble(LastEntry(content, TagModelPixelScale).vals[i])]
       /\ m_TIFFFields[TagModelTiepoint]
              = [i \in 1..6 |-> VDouble(LastEntry(content, TagModelTiepoint).vals[i])]

\* the files of the round trip
RoundTripFile(c) ==
    /\ Carries(c) /\ Terminated(c)
    /\ Len(LastEntry(c, TagImageWidth).vals) = 1
    /\ Len(LastEntry(c, TagImageHeight).vals) = 1

\* C8: round trip. Width, height, pixel scale, tie point and a description
\* d without NUL bytes, written as a classic TIFF IFD (Short, Double
\* sequences, d and one NUL as the Ascii value of tag 270), are decoded to
\* exactly those values; in particular name() = d.
C8_RoundTrip ==
    (impl = "GeoTIFF" /\ Ended /\ openOk /\ RoundTripFile(content)) =>
        /\ pc = "done"
        /\ IsValid
        /\ DecodedNumbers
        /\ m_name = Written(content)

\* the same without the name
C8_RoundTripOfNumbers ==
    (impl = "GeoTIFF" /\ Ended /\ openOk /\ RoundTripFile(content)) =>
        (pc = "done" /\ IsValid /\ DecodedNumbers)


---------------------------------------------------------------------------
(* Two runs: the little-endian and the big-endian encoding of one content *)

\* the same content in the other byte order: 'MM' for 'II', and every
\* field of more than one byte swapped
Swapped(c) ==
    [c EXCEPT !.order = BigEndian,
              !.magic = IF c.magic = MagicII THEN MagicMM ELSE c.magic]

\* what a run leaves behind
Outcome ==
    [pc |-> pc, error |-> m_error, thrown |-> thrown, bBox |-> m_bBox,
     name |-> m_name, fields |-> m_TIFFFields, geo |-> geo, rect |-> rect,
     warnings |-> m_warnings]

InitTwin ==
    /\ impl \in Impls
    /\ content \in { c \in Contents :
                         /\ c.order = LittleEndian /\ c.magic # MagicMM
                         /\ \A i \in DOMAIN c.entries : c.entries[i].off < 0 }
    /\ file = FileOf(content)
    /\ openOk \in BOOLEAN
    /\ (~openOk => content = FullContent(LittleEndian))
    /\ device \in Devices
    /\ (device = "QBuffer" =>
            impl = "GeoTIFF" /\ openOk
            /\ content \in HeaderFiles \cup TruncatedFiles \cup OffsetFiles)
    /\ phase = 1
    /\ twin = Swapped(content)
    /\ first = NoOutcome
    /\ DecoderInit

\* the first run has ended: a new decoder reads the other encoding
StartSecond ==
    /\ phase = 1
    /\ Ended
    /\ phase' = 2
    /\ first' = Outcome
    /\ content' = twin
    /\ file' = FileOf(twin)
    /\ pc' = "start"
    /\ pos' = 0
    /\ byteOrder' = (IF impl = "GeoTIFF" THEN BigEndian ELSE LittleEndian)
    /\ tagCount' = 0
    /\ idx' = 0
    /\ m_TIFFFields' = NoFields
    /\ m_bBox' = InvalidRect
    /\ m_name' = <<>>
    /\ m_error' = ""
    /\ m_warnings' = <<>>
    /\ header' = [version |-> VersionClassic, ifd0Offset |-> 0]
    /\ ifdEntries' = <<>>
    /\ geo' = [width |-> 0, height |-> 0, longitute |-> 0, latitude |-> 0,
               pixelWidth |-> 0, pixelHeight |-> 0]
    /\ rect' = InvalidRect
    /\ thrown' = ""
    /\ trace' = <<>>
    /\ UNCHANGED << impl, openOk, device, twin >>

NextTwin == Next \/ StartSecond

SpecTwin == InitTwin /\ [][NextTwin]_vars

---------------------------------------------------------------------------
(* C9 *)

AllStandard(c) ==
    \A i \in DOMAIN c.entries : Standard(c, c.entries[i].tag)

\* the same of the files a decoder reads without an access outside a list
\* or a buffer: every tag stored as GeoTIFF writers store it and, for
\* TiffFile, nothing cut off
C9_WhereDecodingIsDefined ==
    (/\ phase = 2 /\ Ended
     /\ AllStandard(content)
     /\ impl = "TiffFile" => content.cut < 0) => Outcome = first

C9_WhereDecodingIsDefinedWitness ==
    /\ phase = 2 /\ Succeeded /\ Carries(content)
    /\ content.order = BigEndian
    /\ ReturnedBox # InvalidRect
    /\ first.pc = "done"


---------------------------------------------------------------------------
(* C10 *)

\* the header as the file holds it
FileMagic == SubSeq(file, 1, Min(2, Len(file)))
FileOrder == IF FileMagic = MagicII THEN LittleEndian ELSE BigEndian
FileVersion == U16Value(ToHostOrder(SubSeq(file, 3, 4), FileOrder))

MagicAccepted == openOk /\ FileMagic \in {MagicII, MagicMM}

\* GeoTIFF accepts version 42, TiffFile 42 and 43
VersionAccepted ==
    /\ Len(file) >= 4
    /\ FileVersion \in (IF impl = "GeoTIFF" THEN {VersionClassic}
                        ELSE {VersionClassic, VersionBigTiff})

\* the device operations on the header, and those on the IFD
HeaderOps == {"start", "magic", "version", "ifd0Offset", "header"}
IfdTouched == \E i \in DOMAIN trace : trace[i].what \notin HeaderOps

\* C10: header gate. A seek to the IFD offset or a read of the entry count
\* happens only after the 2-byte magic ('II' or 'MM') and the 16-bit version
\* were read and accepted; any other magic fails with the invalid-format
\* error, and a header with an unsupported version (e.g. 99) with the
\* unsupported-version error, both before any read of the IFD.
C10_HeaderGate ==
    /\ IfdTouched => (MagicAccepted /\ VersionAccepted)
    /\ \A i, j \in DOMAIN trace :
           (trace[i].what \in HeaderOps /\ trace[j].what \notin HeaderOps) => i < j
    /\ (Ended /\ openOk /\ FileMagic \notin {MagicII, MagicMM}) =>
           /\ m_error = (IF impl = "GeoTIFF" THEN ErrInvalidTIFF ELSE ErrInvalidTiff)
           /\ ~IfdTouched
    /\ (Ended /\ MagicAccepted /\ Len(file) >= 8 /\ ~VersionAccepted) =>
           /\ m_error \in (IF impl = "GeoTIFF" THEN {ErrVersion, ErrBigTIFF}
                           ELSE {ErrUnknownVersion})
           /\ ~IfdTouched

\* a file of version 99 was refused, and nothing but its header was read
C10_Witness ==
    /\ Ended /\ MagicAccepted /\ Len(file) >= 8
    /\ FileVersion = 99
    /\ m_error \in {ErrVersion, ErrUnknownVersion}
    /\ trace # <<>>
    /\ ~IfdTouched

---------------------------------------------------------------------------
(* C11 *)

\* a classic file that carries width, height, pixel scale and tie point,
\* and then its BigTIFF encoding
InitBig ==
    /\ impl \in Impls
    /\ content \in { c \in Contents : ~c.big /\ Carries(c) }
    /\ file = FileOf(content)
    /\ openOk = TRUE
    /\ device = "QFile"
    /\ phase = 1
    /\ twin = Big(content)
    /\ first = NoOutcome
    /\ DecoderInit

SpecBig == InitBig /\ [][NextTwin]_vars

\* where the device operations of a kind took place
OpsAt(kind, what) ==
    { trace[i].at : i \in { j \in DOMAIN trace : trace[j].op = kind /\ trace[j].what = what } }

\* the retained entries of a BigTIFF file whose values exceed the 8 bytes
\* of the value field, and where the file holds these values
BigOutOfLine(c) ==
    { i \in DOMAIN c.entries :
          c.entries[i].tag \in RequiredTags /\ BigEntryOutOfLine(c.entries[i], c.order) }
BigValueOffsets(c) ==
    { BigDataBase(c) + BigDataBefore(c.entries, i - 1, c.order) : i \in BigOutOfLine(c) }

\* the run decoded the BigTIFF encoding as the run before it decoded the
\* classic encoding
DecodedAsClassic ==
    /\ pc = "done" /\ first.pc = "done"
    /\ m_error = first.error
    /\ thrown = first.thrown
    /\ geo = first.geo
    /\ rect = first.rect
    /\ m_bBox = first.bBox

\* C11, as stated: a stream whose version field is 43 is accepted as
\* BigTIFF and decoded, and the decoded width, height, pixel scale and tie
\* point equal those of the classic (version 42) encoding of the same
\* content.
C11_BigTiffStated ==
    (phase = 2 /\ Ended) => DecodedAsClassic

\* C11: TiffFile accepts a stream whose version field is 43 as BigTIFF and
\* decodes it: the IFD0 offset is the 64-bit value at header bytes 8-15,
\* the entry count is 64-bit, each entry is 20 bytes (tag, type, 64-bit
\* count, 8-byte value-or-offset field), values of at most 8 bytes are read
\* from the field and longer ones at the offset it holds, and the decoded
\* width, height, pixel scale and tie point equal those of the classic
\* encoding of the same content. FileFormats::GeoTIFF refuses such a stream
\* with "BigTIFF files are not supported" before it reads any directory.
C11_BigTiff ==
    (phase = 2 /\ Ended) =>
        IF impl = "GeoTIFF"
        THEN /\ pc = "done"
             /\ m_error = ErrBigTIFF
             /\ m_bBox = InvalidRect
             /\ m_TIFFFields = NoFields
             /\ ~IfdTouched
        ELSE /\ header = [version |-> VersionBigTiff, ifd0Offset |-> content.declIfd]
             /\ OpsAt("read", "tagCount") = { content.ifdOffset }
             /\ OpsAt("read", "entry") =
                    { content.ifdOffset + 8 + 20 * (i - 1) : i \in DOMAIN content.entries }
             /\ OpsAt("read", "nextIfd") =
                    { content.ifdOffset + 8 + 20 * Len(content.entries) }
             /\ OpsAt("seek", "value") = BigValueOffsets(content)
             /\ DecodedAsClassic
             /\ geo.width = Carried(content).w
             /\ geo.height = Carried(content).h
             /\ geo.pixelWidth = Carried(content).sx
             /\ geo.pixelHeight = Carried(content).sy
             /\ geo.longitute = Carried(content).lon
             /\ geo.latitude = Carried(content).lat

\* TiffFile decoded a BigTIFF file whose width, three Shorts, fits the
\* 8-byte field but not the 4-byte field of a classic file, and returned a
\* rectangle
C11_Witness ==
    /\ phase = 2 /\ Ended
    /\ impl = "TiffFile"
    /\ LastEntry(content, TagImageWidth).vals = <<1, 1, 2>>
    /\ BigValueOffsets(content) # {}
    /\ geo.width = 2
    /\ rect # InvalidRect

---------------------------------------------------------------------------
(* C12 *)

\* the tags whose entries a decoder looks at
Retained == IF impl = "GeoTIFF" THEN AllTags ELSE RequiredTags

\* where the file is said to hold the values of entry i
ValueOffset(c, i) ==
    IF c.entries[i].off >= 0 THEN c.entries[i].off
    ELSE DataBase(c) + DataBefore(c.entries, i - 1, c.order)

\* a classic file whose header and directory are whole
WholeDirectory(c) ==
    /\ ~c.big
    /\ c.magic = MagicOf(c.order)
    /\ c.version = VersionClassic
    /\ c.declIfd = c.ifdOffset
    /\ Len(FileOf(c)) >= DataBase(c)
    /\ \A i \in DOMAIN c.entries : c.entries[i].count = U32Bytes(Len(c.entries[i].vals))

\* the retained entries whose out-of-line values lie, or end, past the end
\* of the file
PastEnd(c) ==
    { i \in DOMAIN c.entries :
          /\ c.entries[i].tag \in Retained
          /\ EntryOutOfLine(c.entries[i], c.order)
          /\ ValueOffset(c, i) + Len(EntryRaw(c.entries[i], c.order)) > Len(FileOf(c)) }

\* the run ended with an error of the device
IOError ==
    /\ pc \in {"done", "escaped"}
    /\ IF impl = "GeoTIFF" THEN m_error \in {ErrReadPastEnd, ErrCannotRead, ErrDevice}
       ELSE thrown \in {ErrFileRead, ErrSeekPos} \/ m_error = ErrDevice
    /\ ReturnedBox = InvalidRect

\* C12: for every retained entry whose value is stored out of line, if the
\* offset, or the range offset .. offset + totalBytes, lies past the end of
\* the stream, the parse fails with an I/O error; no value is decoded from
\* bytes that were not read from the stream.
C12_OutOfLinePastEnd ==
    (Ended /\ openOk /\ WholeDirectory(content) /\ PastEnd(content) # {}) =>
        /\ IOError
        /\ \A i \in PastEnd(content) : content.entries[i].tag \notin DOMAIN m_TIFFFields

\* the same of FileFormats::GeoTIFF alone, which checks every read
C12_GeoTIFFOutOfLinePastEnd ==
    impl = "GeoTIFF" => C12_OutOfLinePastEnd

---------------------------------------------------------------------------
(* C13 *)

\* an entry that states its count and its value-or-offset field
EntryStated(tag, type, count, off) ==
    [tag |-> tag, type |-> type, vals |-> <<>>, count |-> count, off |-> off]

\* tags that are none of the five
UnknownTags == {1, 300, 40000}

\* entries of an unknown tag: every kind of type code, counts that make the
\* value inline or out of line, and a field that holds a value, the offset
\* of values in the file, or an offset past the end of the file
UnknownEntries ==
    UNION { { Entry(t, DT_Short, <<7>>), Entry(t, DT_Short, <<7, 8, 9>>),
              Entry(t, DT_Ascii, <<65, 66, 67, 68, 0>>),
              EntryStated(t, DT_Short, U32Bytes(3), 4000),
              EntryStated(t, DT_Double, U32Bytes(1), 4000),
              EntryStated(t, DT_Ascii, U32Bytes(5), 4000),
              EntryStated(t, DT_Long, U32Bytes(3), 4000),
              EntryStated(t, 99, U32Bytes(3), 4000),
              EntryStated(t, DT_Byte, U32Bytes(0), 0) } : t \in UnknownTags }

\* files with the five tags, with one of them absent, and with no entry
ExtraBases ==
    { Content(o, Without(EntriesOf(StdTagOrderDesc, DefaultGeo, DefaultDesc), absent)) :
          o \in Orders, absent \in {0, TagImageWidth, TagImageDescription} }
    \cup { Content(o, <<>>) : o \in Orders }

\* a file, and then the file with one more entry, of an unknown tag
InitExtra ==
    /\ impl \in Impls
    /\ content \in ExtraBases
    /\ file = FileOf(content)
    /\ openOk = TRUE
    /\ device \in Devices
    /\ (device = "QBuffer" => impl = "GeoTIFF")
    /\ phase = 1
    /\ \E k \in 1..(Len(content.entries) + 1), e \in UnknownEntries :
           twin = [content EXCEPT !.entries = InsertAt(content.entries, k, e)]
    /\ first = NoOutcome
    /\ DecoderInit

SpecExtra == InitExtra /\ [][NextTwin]_vars

\* the run ended as the run before it: same success or failure, same
\* bounding box, same description
SameResult ==
    /\ pc = first.pc
    /\ (m_error = "") = (first.error = "")
    /\ (thrown = "") = (first.thrown = "")
    /\ m_bBox = first.bBox
    /\ rect = first.rect
    /\ m_name = first.name

\* C13: leniency for unknown tags. For every file F and every file F'
\* obtained from F by adding to the first IFD an entry whose tag is none of
\* 256, 257, 270, 33550, 33922 (with any type code, any count and any
\* value-or-offset field, an offset past the end of the stream included),
\* parsing F' gives the same outcome as parsing F.
C13_UnknownTagLeniency ==
    (phase = 2 /\ Ended) => SameResult

\* the same of TiffFile alone, which drops the entries of other tags as it
\* reads the directory
C13_TiffFileLeniency ==
    (phase = 2 /\ Ended /\ impl = "TiffFile") => SameResult

\* the same of FileFormats::GeoTIFF for added entries whose values it can
\* read, or does not read
C13_GeoTIFFReadableLeniency ==
    (/\ phase = 2 /\ Ended /\ impl = "GeoTIFF"
     /\ \A i \in DOMAIN content.entries :
            LET e == content.entries[i]
            IN e.tag \in UnknownTags =>
                   \/ e.off < 0
                   \/ U32Value(e.count) = 0
                   \/ (device = "QFile" /\ e.type \notin {DT_Short, DT_Double, DT_Ascii}))
    => SameResult

---------------------------------------------------------------------------
(* C14 *)

\* the number of values the interpreter needs of a tag
Needed(tag) ==
    CASE tag = TagModelPixelScale -> 2
      [] tag = TagModelTiepoint -> 5
      [] OTHER -> 1

\* the number of values an entry decodes to: Short and Double values are
\* decoded, Ascii values by GeoTIFF only, values of other types not at all
DecodedLen(e) ==
    CASE e.type \in {DT_Short, DT_Double} -> Len(e.vals)
      [] e.type = DT_Ascii /\ impl = "GeoTIFF" -> Len(Split0(e.vals))
      [] OTHER -> 0

\* a retained tag of the file decodes to fewer values than are needed
TooShort(c) ==
    \E tag \in Retained :
        HasEntry(c, tag) /\ DecodedLen(LastEntry(c, tag)) < Needed(tag)

\* C14: a retained tag whose decoded value sequence is shorter than the
\* indices the interpreter needs (tag 33550 with fewer than 2 doubles, tag
\* 33922 with fewer than 5, tag 256/257/270 with an empty sequence) makes
\* the parse end in the error state; the interpreter never indexes a value
\* sequence at or beyond its length.
C14_ShortValueSequence ==
    (Ended /\ openOk /\ Intact(content) /\ TooShort(content)) =>
        /\ Failed
        /\ ReturnedBox = InvalidRect
        /\ m_name = <<>>

---------------------------------------------------------------------------
(* C15 *)

\* the tags of the file whose only entry has a type code outside 1..16,
\* all other tags being stored as GeoTIFF writers store them
OnlyUnknownType(c) ==
    { tag \in AllTags :
          /\ Cardinality({ i \in DOMAIN c.entries : c.entries[i].tag = tag }) = 1
          /\ LastEntry(c, tag).type \notin 1..16
          /\ \A other \in AllTags \ {tag} : Standard(c, other) }

\* C15: an entry whose type code is unknown (outside 1..16) has size 0 and
\* is skipped entirely: no value, not even an empty value list, is recorded
\* for its tag, so a required tag that occurs only with an unknown type code
\* is treated exactly like an absent tag, and the parse neither crashes nor
\* partially decodes it.
C15_UnknownTypeSkipped ==
    (Ended /\ openOk /\ Intact(content)) =>
        \A tag \in OnlyUnknownType(content) :
            /\ pc = "done"
            /\ tag \notin DOMAIN m_TIFFFields
            /\ tag \in RequiredTags =>
                   (Failed /\ Error = ErrTagNotSet(tag) /\ ReturnedBox = InvalidRect)
            /\ (tag = TagImageDescription /\ impl = "GeoTIFF") =>
                   (Succeeded /\ m_name = <<>>)

\* the same of TiffFile alone, which skips an entry of no bytes
C15_TiffFileUnknownTypeSkipped ==
    impl = "TiffFile" => C15_UnknownTypeSkipped

---------------------------------------------------------------------------
(* C16 *)

\* C16: GeoImage::readCoordinates returns normally for every input file:
\* whenever no valid georeferencing data is found (unopenable file, bad
\* header, truncated IFD, value offset that cannot be sought, missing tag)
\* it returns an invalid rectangle, and no failure raised while the header
\* or the IFD is read escapes the call.
C16_ReadCoordinatesReturns ==
    (impl = "TiffFile" /\ Ended) =>
        /\ pc # "escaped"
        /\ (pc = "done" /\ (thrown # "" \/ m_error # "")) => rect = InvalidRect

\* the same of the failures that readCoordinates does catch or test: those
\* of getRect and those the constructor reports through its error string
C16_ReportedFailures ==
    (impl = "TiffFile" /\ pc = "done" /\ (thrown # "" \/ m_error # "")) =>
        rect = InvalidRect

---------------------------------------------------------------------------
(* C17 *)

\* the reads of directory entries, as indices of the trace
EntryReads == { j \in DOMAIN trace : trace[j].op = "read" /\ trace[j].what = "entry" }

\* C17: entry alignment (classic TIFF, FileFormats::GeoTIFF, which resolves
\* each entry as it reads it). Whenever the reader starts to read
\* the i-th directory entry (i counted from 0), the stream position is
\* ifd0Offset + 2 + 12*i, whatever seeks to out-of-line values were
\* performed while the entries before it were resolved: after each entry
\* the position is the byte that follows the 12 bytes of the entry.
C17_EntryAlignment ==
    impl = "GeoTIFF" =>
        /\ \A j \in EntryReads :
               \A t \in OpsAt("read", "tagCount") :
                   trace[j].at = t + 2 + 12 * Cardinality({ k \in EntryReads : k < j })
        /\ pc = "fields" =>
               \A t \in OpsAt("read", "tagCount") : pos = t + 2 + 12 * idx

\* GeoTIFF sought to values stored out of line, at the end of the file, and
\* read the next entry after that; it read five entries
C17_Witness ==
    /\ impl = "GeoTIFF"
    /\ Ended
    /\ Cardinality(EntryReads) = 5
    /\ \E i, j \in DOMAIN trace :
           /\ i < j
           /\ trace[i].op = "seek" /\ trace[i].what = "value"
           /\ trace[i].at > trace[j].at + 12
           /\ j \in EntryReads

---------------------------------------------------------------------------
(* C18 *)

\* a classic file whose header and directory are whole, whatever its
\* entries say
ClassicDirectory(c) ==
    /\ ~c.big
    /\ c.magic = MagicOf(c.order)
    /\ c.version = VersionClassic
    /\ c.declIfd = c.ifdOffset
    /\ Len(FileOf(c)) >= DataBase(c)

\* typeSize * count > 4, the product taken in the integers
Exceeds4(e) ==
    LET n == TypeSize(e.type)
    IN n > 0 /\ (U32IsHuge(e.count) \/ U32Value(e.count) > 4 \div n)

\* where entry i starts
EntryPos(c, i) == c.ifdOffset + 2 + 12 * (i - 1)

\* the offset that the value-or-offset field of entry i holds when it holds
\* one
FieldOffset(c, i) ==
    U32Position(ToHostOrder(SubSeq(EntryBytes(c, i), 9, 12), c.order))

\* C18: inline-versus-offset rule (classic TIFF). For every type size in
\* {1, 2, 4, 8} and every count in 0 .. 2^32-1, the value-or-offset field is
\* read as a 32-bit offset and dereferenced exactly when the product
\* typeSize * count, computed without wrap-around, exceeds 4; otherwise the
\* values are decoded from the leading bytes of the field itself.
C18_InlineOrOffset ==
    (openOk /\ ClassicDirectory(content)) =>
        /\ impl = "GeoTIFF" =>
               \A i \in DOMAIN content.entries :
                   (EntryPos(content, i) \in OpsAt("read", "entry")
                    /\ TypeSize(content.entries[i].type) > 0) =>
                       /\ (EntryPos(content, i) + 8 \in OpsAt("read", "valueOffset"))
                              = Exceeds4(content.entries[i])
                       /\ (EntryPos(content, i) + 8 \in OpsAt("read", "value"))
                              = ~Exceeds4(content.entries[i])
        /\ (impl = "TiffFile" /\ pc \in {"getRect", "done"}) =>
               OpsAt("seek", "value") =
                   { FieldOffset(content, i) :
                         i \in { j \in DOMAIN content.entries :
                                     /\ content.entries[j].tag \in RequiredTags
                                     /\ Exceeds4(content.entries[j]) } }

\* the same of TiffFile alone, which multiplies in 64 bits
C18_TiffFileInlineOrOffset ==
    impl = "TiffFile" => C18_InlineOrOffset

\* the same of counts below 2^29, for which the product fits 32 bits
C18_InlineOrOffsetOfSmallCounts ==
    (\A i \in DOMAIN content.entries :
         ~U32IsHuge(content.entries[i].count) /\ content.entries[i].count[4] < 32)
    => C18_InlineOrOffset

---------------------------------------------------------------------------
(* C19 *)

RECURSIVE ParserValuesAsciiFrom(_, _, _)
\* TiffIfdEntry::parserValues of GeoTIFF.h for an Ascii entry of at least
\* one byte, from byte i on, start being where the current segment began: a
\* segment is appended at each NUL, and the tail when the last byte is no NUL
ParserValuesAsciiFrom(bytes, i, start) ==
    IF i > Len(bytes)
    THEN (IF bytes[Len(bytes)] # 0 THEN << SubSeq(bytes, start, Len(bytes)) >> ELSE <<>>)
    ELSE IF bytes[i] = 0
    THEN << SubSeq(bytes, start, i - 1) >> \o ParserValuesAsciiFrom(bytes, i + 1, i + 1)
    ELSE ParserValuesAsciiFrom(bytes, i + 1, start)

ParserValuesAscii(bytes) == ParserValuesAsciiFrom(bytes, 1, 1)

NulCount(v) == Cardinality({ i \in DOMAIN v : v[i] = 0 })

\* the bytes after the last NUL
TailAfterLastNul(v) ==
    LET nuls == { i \in DOMAIN v : v[i] = 0 }
        last == IF nuls = {} THEN 0 ELSE CHOOSE i \in nuls : \A j \in nuls : j <= i
    IN SubSeq(v, last + 1, Len(v))

\* the segments are those of the value v, split as the spec says
SplitAsSpecified(v, segs) ==
    /\ NulCount(v) = 0 => segs = << v >>
    /\ v[Len(v)] = 0 =>
           /\ Len(segs) = NulCount(v)
           /\ segs[Len(segs)] =
                  TailAfterLastNul(SubSeq(v, 1, Len(v) - 1))
    /\ v[Len(v)] # 0 =>
           /\ Len(segs) = NulCount(v) + 1
           /\ segs[Len(segs)] = TailAfterLastNul(v)

\* the file holds one entry of tag 270, an Ascii value of at least one byte
HasAscii(c) ==
    /\ Intact(c)
    /\ Cardinality({ i \in DOMAIN c.entries : c.entries[i].tag = TagImageDescription }) = 1
    /\ LastEntry(c, TagImageDescription).type = DT_Ascii
    /\ Len(LastEntry(c, TagImageDescription).vals) >= 1

\* C19: Ascii decoding splits the raw value bytes on NUL: a value that
\* contains no NUL yields exactly one string segment; a value that ends in
\* NUL yields no trailing empty segment (so 's' followed by NUL decodes to
\* the single string s); a value that does not end in NUL yields the tail
\* after the last NUL as its final segment.
C19_AsciiSegments ==
    (/\ impl = "GeoTIFF" /\ openOk /\ HasAscii(content)
     /\ TagImageDescription \in DOMAIN m_TIFFFields) =>
        SplitAsSpecified(LastEntry(content, TagImageDescription).vals,
                         [i \in DOMAIN m_TIFFFields[TagImageDescription] |->
                              m_TIFFFields[TagImageDescription][i].s])

\* the same of the decoding that GeoTIFF.h declares, which GeoTIFF.cpp does
\* not call
C19_HeaderAsciiSegments ==
    HasAscii(content) =>
        SplitAsSpecified(LastEntry(content, TagImageDescription).vals,
                         ParserValuesAscii(LastEntry(content, TagImageDescription).vals))

\* the same of GeoTIFF.cpp for values that do not end in NUL
C19_AsciiSegmentsWithoutFinalNul ==
    (HasAscii(content) =>
         LET v == LastEntry(content, TagImageDescription).vals IN v[Len(v)] # 0)
    => C19_AsciiSegments

---------------------------------------------------------------------------
(* C20 *)

\* the entries of a tag, as indices of the directory
EntriesOfTag(c, tag) == { i \in DOMAIN c.entries : c.entries[i].tag = tag }

\* every entry of the five tags, not the last one only, is stored as
\* GeoTIFF writers store it
EveryEntryStandard(c) ==
    \A i \in DOMAIN c.entries :
        LET e == c.entries[i]
        IN CASE e.tag \in {TagImageWidth, TagImageHeight} ->
                    e.type = DT_Short /\ Len(e.vals) >= 1
             [] e.tag = TagModelPixelScale -> e.type = DT_Double /\ Len(e.vals) = 3
             [] e.tag = TagModelTiepoint -> e.type = DT_Double /\ Len(e.vals) = 6
             [] e.tag = TagImageDescription -> e.type = DT_Ascii
             [] OTHER -> TRUE

\* the last string of the last entry of tag 270, empty without such an entry
LastDescription(c) ==
    IF HasEntry(c, TagImageDescription)
    THEN LET segs == Split0(LastEntry(c, TagImageDescription).vals) IN segs[Len(segs)]
    ELSE <<>>

\* C20: duplicate tags. When one of the five tags occurs in several entries
\* of the first IFD, the value used for the result is that of the last such
\* entry in directory order (for every number of duplicates and every
\* interleaving with other entries), and within one entry of tag 256, 257
\* or 270 the last element of its value sequence is used.
C20_LastEntryWins ==
    (/\ Ended /\ openOk
     /\ Carries(content) /\ EveryEntryStandard(content)) =>
        LET g == Carried(content)
        IN /\ pc = "done"
           /\ impl = "GeoTIFF" =>
                  /\ m_error = ""
                  /\ m_bBox = SpecBox(g)
                  /\ m_name = LastDescription(content)
           /\ impl = "TiffFile" =>
                  geo = [width |-> g.w, height |-> g.h, longitute |-> g.lon,
                         latitude |-> g.lat, pixelWidth |-> g.sx, pixelHeight |-> g.sy]

\* a file with three entries of tag 256, the last of them before the end of
\* the directory and holding the values 2, 1, was decoded, and the box
\* returned is one pixel wide
C20_Witness ==
    /\ Succeeded
    /\ Carries(content) /\ EveryEntryStandard(content)
    /\ LET es == EntriesOfTag(content, TagImageWidth)
       IN /\ Cardinality(es) = 3
          /\ \A i \in es : i < Len(content.entries)
          /\ \E i \in es : content.entries[i].vals = <<2>>
          /\ LastEntry(content, TagImageWidth).vals = <<2, 1>>
          /\ ReturnedBox.bottomRight.lon = ReturnedBox.topLeft.lon

---------------------------------------------------------------------------
(* C21 *)

\* the entries the parser is to read: the first 100
FirstEntries(c) == SubSeq(c.entries, 1, Min(Len(c.entries), MaxTagCount))

\* the content with only these entries
Capped(c) == [c EXCEPT !.entries = FirstEntries(c)]

\* the required tags that occur among the later entries only
OnlyBeyondCap(c) ==
    { tag \in RequiredTags : HasEntry(c, tag) /\ ~HasEntry(Capped(c), tag) }

\* C21: entry cap. The parser reads at most 100 directory entries; when the
\* IFD declares more than 100 entries it records one warning, does not
\* enter the error state because of the count, reads exactly the first 100
\* entries and ignores every later entry, so a required tag that occurs
\* only at index >= 100 is reported as not set.
C21_EntryCap ==
    (/\ impl = "GeoTIFF" /\ openOk
     /\ WholeFile(content) /\ EveryEntryStandard(content)
     /\ pc \in {"fields", "done", "crashed"}
     /\ OpsAt("read", "tagCount") # {}) =>
        /\ m_warnings = (IF Len(content.entries) > MaxTagCount
                         THEN << WarnTooManyTags >> ELSE <<>>)
        /\ Cardinality(EntryReads) <= MaxTagCount
        /\ DOMAIN m_TIFFFields
               \subseteq { FirstEntries(content)[i].tag : i \in DOMAIN FirstEntries(content) }
        /\ Ended =>
               /\ pc = "done"
               /\ Cardinality(EntryReads) = Len(FirstEntries(content))
               /\ OpsAt("read", "entry") =
                      { EntryPos(content, i) : i \in DOMAIN FirstEntries(content) }
               /\ Carries(Capped(content)) =>
                      (m_error = "" /\ m_bBox = SpecBox(Carried(Capped(content))))
               /\ \A tag \in OnlyBeyondCap(content) :
                      (RequiredTags \ {tag} \subseteq DOMAIN m_TIFFFields) =>
                          (m_error = ErrTagNotSet(tag) /\ m_bBox = InvalidRect)

\* a directory of 101 entries whose last one is the only tie point: one
\* warning, 100 entries read, and tag 33922 reported as not set
C21_Witness ==
    /\ impl = "GeoTIFF" /\ Ended
    /\ Len(content.entries) = MaxTagCount + 1
    /\ content.entries[MaxTagCount + 1].tag = TagModelTiepoint
    /\ m_warnings = << WarnTooManyTags >>
    /\ Cardinality(EntryReads) = MaxTagCount
    /\ m_error = ErrTagNotSet(TagModelTiepoint)

\* a directory of 101 entries whose first four are the required tags: one
\* warning, and the bounding box is returned
C21_WitnessOfSuccess ==
    /\ impl = "GeoTIFF" /\ Ended
    /\ Len(content.entries) = MaxTagCount + 1
    /\ m_warnings = << WarnTooManyTags >>
    /\ m_error = ""
    /\ m_bBox = SpecBox(DefaultGeo)

=============================================================================
